---- MODULE Spec2Model ----
(***************************************************************************)
(* A model of the tealish compiler core (src/tealish/nodes.py and          *)
(* src/tealish/tealish_builtins.py).                                       *)
(*                                                                         *)
(* Part 1 - the build pass.  The recursive-descent consume loops of        *)
(* nodes.py are run as a stack machine: `stack` holds one frame per        *)
(* consume loop that is in progress (innermost last), and every action is  *)
(* one iteration of the innermost loop: it peeks at the next source line,  *)
(* consumes it, and runs every return that the line causes (a closing      *)
(* `end` returns the finished node to the parent loop, whose checks and    *)
(* add_child run in the same step).                                        *)
(*                                                                         *)
(* Source lines are abstracted to their kind (the statement class whose    *)
(* pattern the line matches), see the *_consume actions.                   *)
(***************************************************************************)
EXTENDS Integers, Sequences, FiniteSets, TLC

\* Bounds: the number of source lines of the programs explored, and the
\* number of consume loops nested in one another.
MaxLines == 7
MaxDepth == 4

(***************************************************************************)
(* Source lines.  A line is [t |-> kind, a |-> types]; `a` is the list of  *)
(* declared return types of a `func` line and the list of expression types *)
(* of a `return` line, and empty for every other kind.                     *)
(*   exit     exit(1)            jump     jump main                        *)
(*   assert   assert(1)          comment  # c          blank   (empty)     *)
(*   return   return e1, e2      break    break                            *)
(*   field    fee: int           (switch option / txn setter / field)     *)
(*   block    block main:        func     func f() int, bytes:             *)
(*   deco     @public()          if       if 1:        while   while 1:    *)
(*   for      for i in 0:3:      for_     for _ in 0:3:                    *)
(*   switch   switch 1:          router   router:      teal    teal:       *)
(*   inner_group / inner_txn     struct   struct Item:                     *)
(*   end      end                elif     elif 1:      else    else:       *)
(*   pragma   #pragma version 8   assign_end   end_time = 5                *)
(*            (an assignment whose text starts with `end`)                 *)
(*   EOF      peek() returns None                                          *)
(***************************************************************************)
L(t) == [t |-> t, a |-> <<>>]
EOF == L("EOF")

VARIABLES
  stack,          \* the consume loops in progress (frames), innermost last
  outcome,        \* "running", "built", "ok", "ParseError", "CompileError",
                  \* "OtherError" (any other exception), "Hang" (a loop that
                  \* consumes nothing)
  line_no,        \* compiler.line_no: the number of lines consumed
  returns_todo,   \* what process has to check: the distinct (declared types,
                  \* expression types) of the Return nodes, in tree order
  lastStmt,       \* record of the last statement handed to Program/Block
  lastBlock,      \* record of the last `end` seen by Block.consume
  lastFunc,       \* record of the last `end` seen by Func.consume
  lastRet,        \* record of the last return statement decided
  defBeforeExit,  \* a func/block definition was opened before the first
                  \* exit statement of its enclosing Program/Block
  otherBeforeStruct  \* a top-level statement that is no pragma, comment,
                  \* blank or struct definition was handed to Program.consume

buildVars == <<stack, outcome, line_no, returns_todo, lastStmt, lastBlock,
               lastFunc, lastRet, defBeforeExit, otherBeforeStruct>>

\* The labels of a program: its top-level nodes and the assembly labels
\* written for them
VARIABLES
  conditional_count,  \* compiler.conditional_count
  program_nodes,      \* Program.nodes: records [kind, labels, routes, name,
                      \* decorators, attributes]
  exit_statement,     \* Program.consume's exit_statement is set
  teal_labels,        \* the `label:` lines of the output, in order
  compiled            \* "no", "ok" or "failed"

labelVars == <<conditional_count, program_nodes, exit_statement, teal_labels,
               compiled>>

\* Compilations one after the other in one process
VARIABLES
  _structs,       \* tealish_builtins._structs: struct name -> struct
  compiling,      \* the compilation in progress: [program, pass, box_size]
  first_outcome,  \* program -> outcome of its first compilation
  last_outcome    \* [program, outcome] of the compilation that ended last

registryVars == <<_structs, compiling, first_outcome, last_outcome>>

\* Pretty-printing a tree and parsing the result
VARIABLES
  child_nodes,    \* Program.child_nodes of the program read so far
  printed,        \* the lines of Program.tealish()
  reparsed,       \* the child_nodes of the tree parsed from `printed`
  round_trip      \* "reading", "printed", "parsed" or "ParseError"

roundTripVars == <<child_nodes, printed, reparsed, round_trip>>

\* Inner transactions: the process and write passes of a program
VARIABLES
  inner_nodes,           \* Program.child_nodes: records [kind, inners]
  macro_option,          \* use_inner_txns_macro as the compiler was created
  use_inner_txns_macro,  \* compiler.use_inner_txns_macro: "None", "True", "False"
  max_slot,              \* compiler.max_slot
  flag_slot,             \* scratch slot of inner_group_flag, -1 if not declared
  written,               \* the number of child nodes written
  output,                \* the instructions written
  pass                   \* "new", "build", "write" or "done"

innerVars == <<inner_nodes, macro_option, use_inner_txns_macro, max_slot,
               flag_slot, written, output, pass>>

\* The macro subroutines run by the virtual machine
VARIABLES
  pc,         \* index of the next instruction of the macro text, 0 in the caller
  vm_stack,   \* the operand stack
  scratch,    \* scratch slot -> value
  entry,      \* [sub, flag]: the subroutine called last, the flag at the call
  call_ops,   \* the inner transaction opcodes executed since the last call
  vm_state,   \* "idle", "running", "returned" or "failed"
  calls,      \* the number of calls made
  history     \* the calls that returned, in order: [sub, flag, ops] of each

macroVars == <<pc, vm_stack, scratch, entry, call_ops, vm_state, calls,
              history>>

\* One route of a router, the function it names, and the route's assembly
\* run by the virtual machine
VARIABLES
  route_func,       \* the function: [decorators, attributes, args, returns]
  route_state,      \* "new", "built", "processed", "written", "running",
                    \* "returned", or the exception raised: "CompileError",
                    \* "UnboundLocalError", "KeyError", or "failed" (the
                    \* machine stops on a fault)
  arg_expressions,  \* Route.arg_expressions, the source text of each
  route_teal,       \* the instructions written for the route
  route_pc,         \* index of the next instruction of route_teal
  route_stack,      \* the operand stack, top last
  logged            \* the byte strings logged, in order

routeVars == <<route_func, route_state, arg_expressions, route_teal, route_pc,
               route_stack, logged>>

\* The statements that enclose a `break`
VARIABLES
  ancestors,      \* the compound statements that are open, outermost first:
                  \* records [kind, end_label]
  loop_count,     \* compiler.conditional_count
  break_nodes,    \* the Break nodes built: [ancestors, parent_loop], where
                  \* parent_loop is the end_label of Break.parent_loop
  break_outcome,  \* "running", "ParseError" or "written"
  break_teal      \* the labels of the `b` lines written by the Break nodes

breakVars == <<ancestors, loop_count, break_nodes, break_outcome, break_teal>>

\* The field setters of one inner_txn
VARIABLES
  setter_lines,   \* the setter lines of the source: [name, index], index the
                  \* digits between the brackets, "" without brackets
  setter_nodes,   \* InnerTxn.child_nodes: [field_name, index], index None = -1
  setter_outcome  \* "build", "ok" or "ParseError"

setterVars == <<setter_lines, setter_nodes, setter_outcome>>

\* One if statement: its branches, the text written for it and its execution
VARIABLES
  if_statement,   \* the IfStatement: [modifier, conditional_index, end_label,
                  \* next_label], modifier "not" or "" (None)
  if_children,    \* IfStatement.child_nodes: [kind, modifier, label, next_label]
  if_state,       \* "none", "open", "consumed", "processed", "written",
                  \* "running" or "done"
  if_teal,        \* the instructions written
  condition_values, \* the value each condition leaves on the stack, by branch
  if_pc,          \* index of the next instruction of if_teal
  if_stack,       \* the operand stack
  if_trace        \* what the execution did, in order: [e, n] with e "condition",
                  \* "body" (n the branch number) or "label" (n the label)

ifVars == <<if_statement, if_children, if_state, if_teal, condition_values,
            if_pc, if_stack, if_trace>>

\* One for loop: the text written for it and its execution
VARIABLES
  for_node,    \* [kind, start, end, slot, before]: ForStatement or
               \* For_Statement, its bounds, the slot of its variable and the
               \* stack when the loop is reached
  for_state,   \* "none", "running", "done" or "failed"
  for_teal,    \* the instructions written
  for_pc,      \* index of the next instruction of for_teal
  for_stack,   \* the operand stack
  for_scratch, \* scratch slot -> value
  for_trace    \* what the execution did, in order: [e, v, w] with e "compare"
               \* (v == w) or "body" (v the counter, w the stack depth)

forVars == <<for_node, for_state, for_teal, for_pc, for_stack, for_scratch,
             for_trace>>

\* The statements of one compilation, by their opening lines
VARIABLES
  index_nodes,  \* the nodes built, in the order of their opening lines:
                \* [kind, conditional_index, parent], conditional_index -1
                \* for a node without one, parent the place of the enclosing
                \* node in index_nodes, 0 for the program
  index_open    \* the places of the statements that are open, outermost first

indexVars == <<index_nodes, index_open>>

\* One assignment `n1, ..., nk = f()` and the function it calls
VARIABLES
  asg_node,     \* [names, returns, before]: the names of the assignment, the
                \* declared return types of f, the stack before the statement
  asg_state,    \* "none", "CompileError", "processed", "running" or "done"
  asg_teal,     \* the instructions written: the assignment, `exit`, then f
  asg_pc,       \* index of the next instruction of asg_teal
  asg_calls,    \* the return addresses of the calls in progress
  asg_stack,    \* the operand stack
  asg_scratch,  \* scratch slot -> value
  asg_trace     \* the stores and pops executed, in order: [op, slot, v]

asgVars == <<asg_node, asg_state, asg_teal, asg_pc, asg_calls, asg_stack,
             asg_scratch, asg_trace>>

\* One struct field assignment `name.field_name = expression`
VARIABLES
  fw_node,      \* [name, field_name, expression, before] of the statement
  fw_state,     \* "none", "CompileError", "processed", "running", "failed"
                \* or "done"
  fw_teal,      \* the instructions written for the statement
  fw_pc,        \* index of the next instruction of fw_teal
  fw_stack,     \* the operand stack
  fw_scratch,   \* scratch slot -> value
  fw_trace      \* the slots stored to, in order

fieldVars == <<fw_node, fw_state, fw_teal, fw_pc, fw_stack, fw_scratch,
               fw_trace>>

\* The variables the build and process passes leave alone
notBuildVars ==
  <<labelVars, registryVars, roundTripVars, innerVars, macroVars, routeVars,
    breakVars, setterVars, ifVars, forVars, indexVars, asgVars, fieldVars>>
notLabelVars ==
  <<buildVars, registryVars, roundTripVars, innerVars, macroVars, routeVars,
    breakVars, setterVars, ifVars, forVars, indexVars, asgVars, fieldVars>>
notRegistryVars ==
  <<buildVars, labelVars, roundTripVars, innerVars, macroVars, routeVars,
    breakVars, setterVars, ifVars, forVars, indexVars, asgVars, fieldVars>>
notRoundTripVars ==
  <<buildVars, labelVars, registryVars, innerVars, macroVars, routeVars,
    breakVars, setterVars, ifVars, forVars, indexVars, asgVars, fieldVars>>
notInnerVars ==
  <<buildVars, labelVars, registryVars, roundTripVars, macroVars, routeVars,
    breakVars, setterVars, ifVars, forVars, indexVars, asgVars, fieldVars>>
notMacroVars ==
  <<buildVars, labelVars, registryVars, roundTripVars, innerVars, routeVars,
    breakVars, setterVars, ifVars, forVars, indexVars, asgVars, fieldVars>>
notRouteVars ==
  <<buildVars, labelVars, registryVars, roundTripVars, innerVars, macroVars,
    breakVars, setterVars, ifVars, forVars, indexVars, asgVars, fieldVars>>
notBreakVars ==
  <<buildVars, labelVars, registryVars, roundTripVars, innerVars, macroVars,
    routeVars, setterVars, ifVars, forVars, indexVars, asgVars, fieldVars>>
notSetterVars ==
  <<buildVars, labelVars, registryVars, roundTripVars, innerVars, macroVars,
    routeVars, breakVars, ifVars, forVars, indexVars, asgVars, fieldVars>>
notIfVars ==
  <<buildVars, labelVars, registryVars, roundTripVars, innerVars, macroVars,
    routeVars, breakVars, setterVars, forVars, indexVars, asgVars,
    fieldVars>>
notForVars ==
  <<buildVars, labelVars, registryVars, roundTripVars, innerVars, macroVars,
    routeVars, breakVars, setterVars, ifVars, indexVars, asgVars,
    fieldVars>>
notIndexVars ==
  <<buildVars, labelVars, registryVars, roundTripVars, innerVars, macroVars,
    routeVars, breakVars, setterVars, ifVars, forVars, asgVars, fieldVars>>
notAsgVars ==
  <<buildVars, labelVars, registryVars, roundTripVars, innerVars, macroVars,
    routeVars, breakVars, setterVars, ifVars, forVars, indexVars,
    fieldVars>>
notFieldVars ==
  <<buildVars, labelVars, registryVars, roundTripVars, innerVars, macroVars,
    routeVars, breakVars, setterVars, ifVars, forVars, indexVars, asgVars>>
notLabelIndexVars ==
  <<buildVars, registryVars, roundTripVars, innerVars, macroVars, routeVars,
    breakVars, setterVars, ifVars, forVars, asgVars, fieldVars>>

-----------------------------------------------------------------------------
(* Frames and the class hierarchy                                          *)

Frame(kind, returns) ==
  [kind |-> kind,
   exit_statement |-> "None",           \* Program.consume / Block.consume
   expect_struct_definition |-> TRUE,   \* Program.consume
   nodes |-> IF kind = "Func" THEN <<"ArgsList">> ELSE <<>>,
                                        \* Node.nodes of a Func or Block
   returns |-> returns]                 \* Func.returns

\* Node.add_child's append to the nodes of a Func or Block.  The build pass
\* reads these lists only from their end (Func.consume looks for the last
\* node that is no Func, Comment or Blank), so the model keeps the list from
\* the last node that is not a trailing definition, comment or blank.
Trailing == {"Func", "Block", "Comment", "Blank"}
Appended(nodes, n) == IF n \in Trailing THEN Append(nodes, n) ELSE <<n>>

Top(s) == s[Len(s)]
Pop(s) == SubSeq(s, 1, Len(s) - 1)
SetTop(s, f) == [s EXCEPT ![Len(s)] = f]
Raise(st, err) == [st EXCEPT !.outcome = err]

\* Every class that Statement.consume can return.
StatementKinds ==
  {"Exit", "Jump", "Assert", "Comment", "Blank", "Return", "Break", "Block",
   "Func", "DecoratedFunc", "IfStatement", "WhileStatement", "ForStatement",
   "For_Statement", "Switch", "Router", "Teal", "InnerGroup", "InnerTxn",
   "StructDefinition", "TealVersion", "Assignment"}

\* The subclasses of InlineStatement: every statement class but Block.
InlineKinds == StatementKinds \ {"Block"}

\* possible_child_nodes of each class whose children come from Statement.consume
possible_child_nodes(kind) ==
  CASE kind \in {"Program", "Block", "InnerGroup"} -> StatementKinds
    [] kind \in {"IfThen", "Elif", "Else", "WhileStatement", "ForStatement",
                 "For_Statement", "Func"} -> InlineKinds
    [] kind = "DecoratedFunc" -> {"Decorator", "Comment", "Func"}
    [] OTHER -> {}

is_exit_statement_WithIf(node) ==
  node \in {"Exit", "Switch", "Jump", "Router", "IfStatement"}
is_exit_statement(node) == node \in {"Exit", "Switch", "Jump", "Router"}

\* BaseNode.find_parent(cls): the nearest enclosing node of a class, 0 if none
RECURSIVE find_parent(_, _)
find_parent(s, kind) ==
  IF s = <<>> THEN 0
  ELSE IF Top(s).kind = kind THEN Len(s) ELSE find_parent(Pop(s), kind)

\* exit_statement of the nearest enclosing Program or Block loop
RECURSIVE LevelExit(_)
LevelExit(s) ==
  IF s = <<>> THEN "None"
  ELSE IF Top(s).kind \in {"Program", "Block"} THEN Top(s).exit_statement
  ELSE LevelExit(Pop(s))

-----------------------------------------------------------------------------
(* Returning a finished node to the loop that asked for it                 *)

\* Program.consume, expect_struct_definition after the statement n, with
\* the pragma line missing from the tuple
expect_struct_definition_NoPragma(expect, n) ==
  IF n \notin {"Blank", "Comment", "StructDefinition"} THEN FALSE ELSE expect

\* Program.consume, expect_struct_definition after the statement n
expect_struct_definition(expect, n) ==
  IF n \notin {"TealVersion", "Blank", "Comment", "StructDefinition"}
  THEN FALSE ELSE expect

\* Program.consume, the checks after Statement.consume returned n
Program_receive(st, n) ==
  LET f == Top(st.stack)
      structErr == ~f.expect_struct_definition /\ n = "StructDefinition"
      expect == expect_struct_definition(f.expect_struct_definition, n)
      exitErr == IF f.exit_statement # "None"
                 THEN n \notin {"Func", "DecoratedFunc", "Block", "Comment", "Blank"}
                 ELSE n \in {"Func", "DecoratedFunc", "Block"}
      ev == [level |-> "Program", kind |-> n,
             afterExit |-> f.exit_statement # "None",
             rejected |-> structErr \/ exitErr]
      f2 == [f EXCEPT !.expect_struct_definition = expect,
                      !.exit_statement = IF is_exit_statement(n) THEN n ELSE @]
  IN IF structErr \/ exitErr
     THEN [st EXCEPT !.outcome = "ParseError", !.lastStmt = ev]
     ELSE [st EXCEPT !.stack = SetTop(st.stack, f2), !.lastStmt = ev]

\* Block.consume, the checks after Statement.consume returned n
Block_receive(st, n) ==
  LET f == Top(st.stack)
      exitErr == IF f.exit_statement # "None"
                 THEN n \notin {"Func", "Block", "Comment", "Blank"}
                 ELSE n \in {"Func", "Block"}
      ev == [level |-> "Block", kind |-> n,
             afterExit |-> f.exit_statement # "None",
             rejected |-> exitErr]
      f2 == [f EXCEPT !.nodes = Appended(@, n),
                      !.exit_statement = IF is_exit_statement(n) THEN n ELSE @]
  IN IF exitErr
     THEN [st EXCEPT !.outcome = "ParseError", !.lastStmt = ev]
     ELSE [st EXCEPT !.stack = SetTop(st.stack, f2), !.lastStmt = ev]

\* The node n is returned to the innermost loop: its checks and add_child.
RECURSIVE Deliver(_, _)
Deliver(st, n) ==
  LET f == Top(st.stack) IN
  CASE f.kind = "Program" -> Program_receive(st, n)
    [] f.kind = "Block" -> Block_receive(st, n)
    [] f.kind = "DecoratedFunc" ->
         \* set_func(Func.consume(...)); break; return decorated_func
         Deliver([st EXCEPT !.stack = Pop(st.stack)], "DecoratedFunc")
    [] OTHER ->
         IF n \notin possible_child_nodes(f.kind)
         THEN Raise(st, "ParseError")
         ELSE [st EXCEPT !.stack = SetTop(st.stack,
                 [f EXCEPT !.nodes = IF f.kind = "Func" THEN Appended(@, n) ELSE @])]

-----------------------------------------------------------------------------
(* Statement.consume and LineStatement.consume                             *)

Push(st, frames) == [st EXCEPT !.stack = st.stack \o frames]

\* A func, decorated func or block definition opens: is it before the first
\* exit statement of the enclosing Program/Block?  (observation only)
MarkDef(st) ==
  [st EXCEPT !.defBeforeExit = @ \/ LevelExit(st.stack) = "None"]

\* Return.__init__
Return_init(st, l) ==
  LET i == find_parent(st.stack, "Func")
      declared == IF i = 0 THEN <<>> ELSE st.stack[i].returns
      ok == i # 0 /\ Len(l.a) = Len(declared)
      ev == [phase |-> "build", inFunc |-> i # 0, declared |-> declared,
             exprs |-> l.a, accepted |-> ok]
      st1 == [st EXCEPT !.lastRet = ev]
  IN IF ~ok THEN Raise(st1, "ParseError")
     ELSE LET r == [returns |-> declared, args_expressions |-> l.a]
              seen == \E k \in 1..Len(st.returns_todo) : st.returns_todo[k] = r
          IN Deliver([st1 EXCEPT !.returns_todo =
                         IF l.a = <<>> \/ seen THEN @ ELSE Append(@, r)],
                     "Return")

\* LineStatement.consume: the line is consumed and matched against the
\* patterns of the line statements
LineStatement_consume(st, l) ==
  CASE l.t = "pragma" ->
         \* compiler.line_no is the number of the line just consumed
         IF st.line_no + 1 # 1 THEN Raise(st, "ParseError")
         ELSE Deliver(st, "TealVersion")
    [] l.t = "exit" -> Deliver(st, "Exit")
    [] l.t = "jump" -> Deliver(st, "Jump")
    [] l.t = "assert" -> Deliver(st, "Assert")
    [] l.t = "comment" -> Deliver(st, "Comment")
    [] l.t = "blank" -> Deliver(st, "Blank")
    [] l.t = "return" -> Return_init(st, l)
    [] l.t = "break" ->
         \* Break.__init__
         IF find_parent(st.stack, "WhileStatement") = 0
         THEN Raise(st, "ParseError") ELSE Deliver(st, "Break")
    [] l.t = "assign_end" -> Deliver(st, "Assignment")
    [] OTHER -> Raise(st, "ParseError")  \* end, elif, else:, fee: int

\* Statement.consume: dispatch on the prefix of the peeked line
Statement_consume(st, l) ==
  CASE l.t = "EOF" -> Raise(st, "OtherError")  \* None.startswith(...)
    [] l.t = "block" -> Push(MarkDef(st), <<Frame("Block", <<>>)>>)
    [] l.t = "switch" -> Push(st, <<Frame("Switch", <<>>)>>)
    [] l.t = "func" -> Push(MarkDef(st), <<Frame("Func", l.a)>>)
    [] l.t = "deco" -> Push(MarkDef(st), <<Frame("DecoratedFunc", <<>>)>>)
    [] l.t = "if" -> Push(st, <<Frame("IfStatement", <<>>), Frame("IfThen", <<>>)>>)
    [] l.t = "while" -> Push(st, <<Frame("WhileStatement", <<>>)>>)
    [] l.t = "for_" -> Push(st, <<Frame("For_Statement", <<>>)>>)
    [] l.t = "for" -> Push(st, <<Frame("ForStatement", <<>>)>>)
    [] l.t = "teal" -> Push(st, <<Frame("Teal", <<>>)>>)
    [] l.t = "inner_group" -> Push(st, <<Frame("InnerGroup", <<>>)>>)
    [] l.t = "inner_txn" -> Push(st, <<Frame("InnerTxn", <<>>)>>)
    [] l.t = "struct" ->
         \* StructDefinition.consume: the parent must be the Program
         IF Top(st.stack).kind # "Program"
         THEN Raise([st EXCEPT !.lastStmt =
                       [level |-> Top(st.stack).kind, kind |-> "StructDefinition",
                        afterExit |-> FALSE, rejected |-> TRUE]],
                    "ParseError")
         ELSE Push(st, <<Frame("StructDefinition", <<>>)>>)
    [] l.t = "router" -> Push(st, <<Frame("Router", <<>>)>>)
    [] OTHER -> LineStatement_consume(st, l)

-----------------------------------------------------------------------------
(* One iteration of each consume loop, on the peeked line l                *)

\* Program.consume
Program_loop(st, l) ==
  IF l.t = "EOF" THEN [st EXCEPT !.outcome = "built"]
  ELSE Statement_consume(st, l)

\* Block.consume
Block_loop(st, l) ==
  IF l.t = "end"
  THEN LET f == Top(st.stack)
           ok == f.exit_statement # "None"
           ev == [closed |-> TRUE, accepted |-> ok, nodes |-> f.nodes]
           st1 == [st EXCEPT !.lastBlock = ev]
       IN IF ~ok THEN Raise(st1, "ParseError")
          ELSE Deliver([st1 EXCEPT !.stack = Pop(st.stack)], "Block")
  ELSE Statement_consume(st, l)

\* Func.consume: the node that must be a Return
last_node_KeepComment(nodes) ==
  LET keep == SelectSeq(nodes, LAMBDA n : n \notin {"Func", "Blank"})
  IN keep[Len(keep)]
last_node(nodes) ==
  LET keep == SelectSeq(nodes, LAMBDA n : n \notin {"Func", "Comment", "Blank"})
  IN keep[Len(keep)]

\* Func.consume
Func_loop(st, l) ==
  IF l.t = "end"
  THEN LET f == Top(st.stack)
           ok == last_node(f.nodes) = "Return"
           ev == [closed |-> TRUE, accepted |-> ok, nodes |-> f.nodes]
           st1 == [st EXCEPT !.lastFunc = ev]
       IN IF ~ok THEN Raise(st1, "ParseError")
          ELSE Deliver([st1 EXCEPT !.stack = Pop(st.stack)], "Func")
  ELSE Statement_consume(st, l)

\* WhileStatement.consume, ForStatement.consume, For_Statement.consume
Loop_loop(st, l) ==
  IF l.t = "end"
  THEN Deliver([st EXCEPT !.stack = Pop(st.stack)], Top(st.stack).kind)
  ELSE Statement_consume(st, l)

\* InnerGroup.consume
InnerGroup_loop(st, l) ==
  IF l.t = "EOF" THEN Raise(st, "OtherError")
  ELSE IF l.t = "end"
  THEN Deliver([st EXCEPT !.stack = Pop(st.stack)], "InnerGroup")
  ELSE Statement_consume(st, l)

\* IfStatement.consume, the loop after the IfThen, Elif or Else returned; the
\* IfStatement frame is on top
IfStatement_loop(st, l) ==
  CASE l.t = "end" -> Deliver([st EXCEPT !.stack = Pop(st.stack)], "IfStatement")
    [] l.t = "elif" -> Push(st, <<Frame("Elif", <<>>)>>)
    [] l.t = "else" -> Push(st, <<Frame("Else", <<>>)>>)
    [] OTHER -> Raise(st, "Hang")

\* IfThen.consume and Elif.consume: the loop is left on a line that starts
\* with `end`, `elif` or `else:`
IfThen_loop(st, l) ==
  IF l.t = "EOF" THEN Raise(st, "OtherError")
  ELSE IF l.t \in {"end", "elif", "else", "assign_end"}
  THEN IfStatement_loop([st EXCEPT !.stack = Pop(st.stack)], l)
  ELSE Statement_consume(st, l)

\* Else.consume: the loop is left on a line that starts with `end`
Else_loop(st, l) ==
  IF l.t = "EOF" THEN Raise(st, "OtherError")
  ELSE IF l.t \in {"end", "assign_end"}
  THEN IfStatement_loop([st EXCEPT !.stack = Pop(st.stack)], l)
  ELSE Statement_consume(st, l)

\* Switch.consume
Switch_loop(st, l) ==
  CASE l.t = "EOF" -> Raise(st, "OtherError")
    [] l.t = "end" -> Deliver([st EXCEPT !.stack = Pop(st.stack)], "Switch")
    [] l.t = "field" -> st                   \* add_option(SwitchOption(...))
    [] OTHER -> Raise(st, "ParseError")      \* pattern does not match

\* Router.consume (every line is a Route) and Teal.consume (a TealLine)
Router_loop(st, l) ==
  CASE l.t = "EOF" -> Raise(st, "OtherError")
    [] l.t = "end" -> Deliver([st EXCEPT !.stack = Pop(st.stack)], Top(st.stack).kind)
    [] OTHER -> st

\* InnerTxn.consume
InnerTxn_loop(st, l) ==
  CASE l.t = "EOF" -> Raise(st, "OtherError")
    [] l.t = "end" -> Deliver([st EXCEPT !.stack = Pop(st.stack)], "InnerTxn")
    [] l.t = "comment" -> st
    [] l.t = "field" -> st                   \* InnerTxnFieldSetter(...)
    [] OTHER -> Raise(st, "ParseError")

\* StructDefinition.consume, after the opening line
StructDefinition_loop(st, l) ==
  CASE l.t = "EOF" -> Raise(st, "OtherError")
    [] l.t = "end" -> Deliver([st EXCEPT !.stack = Pop(st.stack)], "StructDefinition")
    [] l.t = "comment" -> st
    [] l.t = "field" -> st                   \* StructFieldDefinition(...)
    [] OTHER -> Raise(st, "ParseError")

\* DecoratedFunc.consume
DecoratedFunc_loop(st, l) ==
  CASE l.t = "EOF" -> Raise(st, "OtherError")
    [] l.t = "func" -> Push(MarkDef(st), <<Frame("Func", l.a)>>)
    [] l.t = "deco" -> st                    \* add_decorator(Decorator.consume)
    [] OTHER -> Raise(st, "Hang")            \* neither branch consumes the line

-----------------------------------------------------------------------------
(* The build pass as actions                                               *)

NoStmt == [level |-> "none", kind |-> "None", afterExit |-> FALSE, rejected |-> FALSE]
NoClose == [closed |-> FALSE, accepted |-> FALSE, nodes |-> <<>>]
NoRet == [phase |-> "none", inFunc |-> FALSE, declared |-> <<>>, exprs |-> <<>>,
          accepted |-> FALSE]

\* TealishCompiler() and Program("", ...) at the start of Program.consume
InitBuild ==
  /\ stack = <<Frame("Program", <<>>)>>
  /\ outcome = "running"
  /\ line_no = 0
  /\ returns_todo = <<>>
  /\ lastStmt = NoStmt
  /\ lastBlock = NoClose
  /\ lastFunc = NoClose
  /\ lastRet = NoRet
  /\ defBeforeExit = FALSE
  /\ otherBeforeStruct = FALSE

\* The state handed to a loop iteration; the last* records describe the
\* latest step only
ST == [stack |-> stack, outcome |-> outcome, returns_todo |-> returns_todo,
       lastStmt |-> NoStmt, lastBlock |-> NoClose, lastFunc |-> NoClose,
       lastRet |-> NoRet, defBeforeExit |-> defBeforeExit, line_no |-> line_no]

Errors == {"ParseError", "CompileError", "OtherError"}

\* An exception unwinds every consume loop and leaves no tree behind
Apply(r, l) ==
  /\ stack' = IF r.outcome \in Errors THEN <<>> ELSE r.stack
  /\ outcome' = r.outcome
  /\ returns_todo' = IF r.outcome \in Errors THEN <<>> ELSE r.returns_todo
  /\ lastStmt' = r.lastStmt
  /\ lastBlock' = r.lastBlock
  /\ lastFunc' = r.lastFunc
  /\ lastRet' = r.lastRet
  /\ defBeforeExit' = r.defBeforeExit
  /\ otherBeforeStruct' =
       ( \/ otherBeforeStruct
         \/ /\ r.lastStmt.level = "Program"
            /\ r.lastStmt.kind \notin {"TealVersion", "Comment", "Blank",
                                       "StructDefinition"} )
  /\ line_no' = IF l.t = "EOF" \/ r.outcome = "Hang" THEN line_no ELSE line_no + 1
  /\ Len(r.stack) <= MaxDepth
  /\ UNCHANGED notBuildVars

\* The innermost loop is of one of `kinds` and peeks at line l
Peek(kinds, l) ==
  /\ outcome = "running"
  /\ Top(stack).kind \in kinds
  /\ l.t = "EOF" \/ line_no < MaxLines

Program_consume(l) == Peek({"Program"}, l) /\ Apply(Program_loop(ST, l), l)
Block_consume(l) == Peek({"Block"}, l) /\ Apply(Block_loop(ST, l), l)
Func_consume(l) == Peek({"Func"}, l) /\ Apply(Func_loop(ST, l), l)
DecoratedFunc_consume(l) ==
  Peek({"DecoratedFunc"}, l) /\ Apply(DecoratedFunc_loop(ST, l), l)
IfThen_consume(l) == Peek({"IfThen"}, l) /\ Apply(IfThen_loop(ST, l), l)
Elif_consume(l) == Peek({"Elif"}, l) /\ Apply(IfThen_loop(ST, l), l)
Else_consume(l) == Peek({"Else"}, l) /\ Apply(Else_loop(ST, l), l)
WhileStatement_consume(l) ==
  Peek({"WhileStatement"}, l) /\ Apply(Loop_loop(ST, l), l)
ForStatement_consume(l) ==
  Peek({"ForStatement", "For_Statement"}, l) /\ Apply(Loop_loop(ST, l), l)
Switch_consume(l) == Peek({"Switch"}, l) /\ Apply(Switch_loop(ST, l), l)
Router_consume(l) == Peek({"Router"}, l) /\ Apply(Router_loop(ST, l), l)
Teal_consume(l) == Peek({"Teal"}, l) /\ Apply(Router_loop(ST, l), l)
InnerGroup_consume(l) == Peek({"InnerGroup"}, l) /\ Apply(InnerGroup_loop(ST, l), l)
InnerTxn_consume(l) == Peek({"InnerTxn"}, l) /\ Apply(InnerTxn_loop(ST, l), l)
StructDefinition_consume(l) ==
  Peek({"StructDefinition"}, l) /\ Apply(StructDefinition_loop(ST, l), l)

-----------------------------------------------------------------------------
(* The process pass, as far as the Return nodes go                         *)


\* The sizes of the fixed-size byte types
BytesSizes == [t \in {"bytes[1]", "bytes[2]", "bytes[3]"} |->
                 IF t = "bytes[1]" THEN 1 ELSE IF t = "bytes[2]" THEN 2 ELSE 3]

\* TealishType.can_hold: reflexive, int (8 bytes) holds every narrower
\* unsigned integer, `any` holds and is held by every type, and bytes[k]
\* holds bytes[j] for j <= k
can_hold(dst, src) ==
  \/ dst = src
  \/ dst = "int" /\ src = "uint8"
  \/ dst = "any" \/ src = "any"
  \/ /\ dst \in DOMAIN BytesSizes /\ src \in DOMAIN BytesSizes
     /\ BytesSizes[src] <= BytesSizes[dst]

\* Return.process: the i-th declared type against the i-th expression
Return_types_ok_Reversed(returns, args_expressions) ==
  \A i \in 1..Len(returns) :
    can_hold(returns[i], args_expressions[Len(returns) + 1 - i])
Return_types_ok(returns, args_expressions) ==
  \A i \in 1..Len(returns) : can_hold(returns[i], args_expressions[i])

\* Return.process of the next Return node of the tree
Return_process ==
  /\ outcome = "built"
  /\ returns_todo # <<>>
  /\ LET r == Head(returns_todo)
         ok == Return_types_ok(r.returns, r.args_expressions)
     IN /\ lastRet' = [phase |-> "process", inFunc |-> TRUE, declared |-> r.returns,
                       exprs |-> r.args_expressions, accepted |-> ok]
        /\ outcome' = IF ok THEN "built" ELSE "CompileError"
        /\ returns_todo' = IF ok THEN Tail(returns_todo) ELSE <<>>
  /\ lastStmt' = NoStmt /\ lastBlock' = NoClose /\ lastFunc' = NoClose
  /\ UNCHANGED <<stack, line_no, defBeforeExit, otherBeforeStruct>>
  /\ UNCHANGED notBuildVars

\* Program.process returns: every node has been processed
Program_process ==
  /\ outcome = "built"
  /\ returns_todo = <<>>
  /\ outcome' = "ok"
  /\ lastStmt' = NoStmt /\ lastBlock' = NoClose /\ lastFunc' = NoClose
  /\ lastRet' = NoRet
  /\ UNCHANGED <<stack, line_no, returns_todo, defBeforeExit, otherBeforeStruct>>
  /\ UNCHANGED notBuildVars

-----------------------------------------------------------------------------
(* Labels: the nodes of a program fix their labels when they are built,    *)
(* and write_teal writes one `label:` line for each.  The programs are     *)
(* top-level sequences of if and while statements, one exit statement or   *)
(* router, then blocks and functions; each block name and each function    *)
(* name is declared at most once.                                          *)

\* Bound: the number of top-level statements of a program
MaxNodes == 4

\* Names that match [a-zA-Z_0-9]+, the pattern of block and function names
Names == {"a", "b", "route_a", "__func__a", "l0_end"}

\* The route lists of the routers explored
RouteLists == {<<"a">>, <<"a", "b">>}

InitLabels ==
  /\ conditional_count = 0
  /\ program_nodes = <<>>
  /\ exit_statement = FALSE
  /\ teal_labels = <<>>
  /\ compiled = "no"

LabelNode(kind, name, labels) ==
  [kind |-> kind, name |-> name, labels |-> labels, routes |-> <<>>,
   decorators |-> <<>>, attributes |-> <<>>]

\* Program.consume adds the node n to the program
Program_add_child(n) ==
  /\ compiled = "no"
  /\ Len(program_nodes) < MaxNodes
  /\ IF exit_statement THEN n.kind \in {"Func", "DecoratedFunc", "Block"}
                       ELSE n.kind \notin {"Func", "DecoratedFunc", "Block"}
  /\ program_nodes' = Append(program_nodes, n)
  /\ exit_statement' = (exit_statement \/ is_exit_statement(n.kind))
  /\ UNCHANGED <<teal_labels, compiled>>
  /\ UNCHANGED notLabelVars

Declared(kinds, name) ==
  \E i \in 1..Len(program_nodes) :
    program_nodes[i].kind \in kinds /\ program_nodes[i].name = name

\* Exit: `exit(1)`
Exit_init ==
  /\ Program_add_child(LabelNode("Exit", "", <<>>))
  /\ UNCHANGED conditional_count

\* IfStatement.__init__ and IfStatement.consume of `if c:` ... `end`
IfStatement_init ==
  /\ Program_add_child(
       LabelNode("IfStatement", "",
                 <<"l" \o ToString(conditional_count) \o "_end">>))
  /\ conditional_count' = conditional_count + 1

\* WhileStatement.__init__ and WhileStatement.consume of `while c:` ... `end`
WhileStatement_init ==
  /\ Program_add_child(
       LabelNode("WhileStatement", "",
                 <<"l" \o ToString(conditional_count) \o "_while",
                   "l" \o ToString(conditional_count) \o "_end">>))
  /\ conditional_count' = conditional_count + 1

\* Route.label
Route_label(name) == "route_" \o name

\* Router.consume of `router:` names `end`
Router_init(names) ==
  /\ Program_add_child(
       [LabelNode("Router", "", [i \in 1..Len(names) |-> Route_label(names[i])])
          EXCEPT !.routes = names])
  /\ UNCHANGED conditional_count

\* Block.__init__: the label of a block declared in the scope scope_name
Block_label(scope_name, name) ==
  scope_name \o (IF scope_name # "" THEN "__" ELSE "") \o name

\* Block.consume of `block name:` exit(1) `end` at top level, where the scope
\* is that of Program.__init__, named ""
Block_init(name) ==
  /\ ~Declared({"Block"}, name)
  /\ Program_add_child(LabelNode("Block", name, <<Block_label("", name)>>))
  /\ UNCHANGED conditional_count

\* Func.__init__: the label of a function declared in the scope scope_name
Func_label(scope_name, name) == scope_name \o "__func__" \o name

\* A decorator line `@name(params)`; params is <<>> when the text between
\* the parentheses has no `=`, and <<key, value>> for `key=value`
Decorator(name, params) == [name |-> name, params |-> params]

\* The decorator lines in front of the functions explored; <<>> is a function
\* without decorator
DecoratorLists ==
  { <<>>,
    <<Decorator("public", <<>>)>>,
    <<Decorator("inline", <<>>)>>,
    <<Decorator("inline", <<>>), Decorator("public", <<"OnCompletion", "OptIn">>)>> }

\* DecoratedFunc.set_func: the attributes of the function, one entry for each
\* decorator name, the later decorator of a name replacing the earlier
RECURSIVE DecoratedFunc_set_func(_, _)
DecoratedFunc_set_func(attributes, decorators) ==
  IF decorators = <<>> THEN attributes
  ELSE LET d == Head(decorators)
       IN DecoratedFunc_set_func((d.name :> d.params) @@ attributes,
                                 Tail(decorators))

\* Func.consume of `func name():` return `end` at top level, preceded by
\* the decorator lines (DecoratedFunc.consume) if there are any
Func_init(name, decorators) ==
  /\ ~Declared({"Func", "DecoratedFunc"}, name)
  /\ Program_add_child(
       [LabelNode(IF decorators # <<>> THEN "DecoratedFunc" ELSE "Func", name,
                  <<Func_label("", name)>>)
          EXCEPT !.decorators = decorators,
                 !.attributes = DecoratedFunc_set_func(<<>>, decorators)])
  /\ UNCHANGED conditional_count

\* Route.process with a test for any attribute instead of `public`
Route_process_AnyAttribute(name) ==
  \E i \in 1..Len(program_nodes) :
    /\ program_nodes[i].kind \in {"Func", "DecoratedFunc"}
    /\ program_nodes[i].name = name
    /\ DOMAIN program_nodes[i].attributes # {}

\* Route.process: the route names a function that is public
Route_process(name) ==
  \E i \in 1..Len(program_nodes) :
    /\ program_nodes[i].kind \in {"Func", "DecoratedFunc"}
    /\ program_nodes[i].name = name
    /\ "public" \in DOMAIN program_nodes[i].attributes

RECURSIVE Labels_written(_)
Labels_written(nodes) ==
  IF nodes = <<>> THEN <<>>
  ELSE Head(nodes).labels \o Labels_written(Tail(nodes))

\* Program.process, then Program.write_teal: every node writes its labels
Program_write_teal ==
  /\ compiled = "no"
  /\ LET ok == \A i \in 1..Len(program_nodes) :
                 \A k \in 1..Len(program_nodes[i].routes) :
                   Route_process(program_nodes[i].routes[k])
     IN /\ compiled' = IF ok THEN "ok" ELSE "failed"
        /\ teal_labels' = IF ok THEN Labels_written(program_nodes) ELSE <<>>
  /\ UNCHANGED <<conditional_count, program_nodes, exit_statement>>
  /\ UNCHANGED notLabelVars

-----------------------------------------------------------------------------
(* The struct registry across the compilations of one process.  A program  *)
(* is [struct_def, box]: struct_def is the size of the struct Item that it *)
(* defines (0: it defines none), box says that it declares                 *)
(* `box<Item> b = OpenBox("k")`.                                           *)

StructSizes == {8, 16}

RegistryPrograms == [struct_def : {0} \cup StructSizes, box : BOOLEAN]

Idle == [program |-> [struct_def |-> 0, box |-> FALSE], pass |-> "none", box_size |-> 0]

\* The outcomes of a compilation: the assembly text, which varies with
\* box_size only, or the exception
NoOutcome == [result |-> "none", box_size |-> 0]
Raised(exception) == [result |-> exception, box_size |-> 0]
Assembly(box_size) == [result |-> "teal", box_size |-> box_size]

InitRegistry ==
  /\ _structs = <<>>
  /\ compiling = Idle
  /\ first_outcome = [p \in RegistryPrograms |-> NoOutcome]
  /\ last_outcome = [program |-> Idle.program, outcome |-> NoOutcome]

define_struct(struct_name, struct) ==
  [n \in DOMAIN _structs \cup {struct_name} |->
     IF n = struct_name THEN struct ELSE _structs[n]]

get_struct(struct_name) == _structs[struct_name]

\* The compilation ends with the outcome `result`
Compile_end(result) ==
  /\ compiling' = Idle
  /\ last_outcome' = [program |-> compiling.program, outcome |-> result]
  /\ first_outcome' =
       IF first_outcome[compiling.program] = NoOutcome
         THEN [first_outcome EXCEPT ![compiling.program] = result]
         ELSE first_outcome

\* compile() of program p starts: a new compiler, the registry as it is
Compile_start(p) ==
  /\ compiling.pass = "none"
  /\ compiling' = [program |-> p, pass |-> "build", box_size |-> 0]
  /\ UNCHANGED <<_structs, first_outcome, last_outcome>>
  /\ UNCHANGED notRegistryVars

\* The build pass: StructDefinition.consume registers the struct
Compile_build ==
  /\ compiling.pass = "build"
  /\ _structs' = IF compiling.program.struct_def = 0 THEN _structs
                 ELSE define_struct("Item", [size |-> compiling.program.struct_def])
  /\ compiling' = [compiling EXCEPT !.pass = "process"]
  /\ UNCHANGED <<first_outcome, last_outcome>>
  /\ UNCHANGED notRegistryVars

\* The process pass: BoxDeclaration.process looks the struct up; the lookup
\* of a name that is not in the dictionary raises KeyError
Compile_process ==
  /\ compiling.pass = "process"
  /\ IF ~compiling.program.box
       THEN /\ compiling' = [compiling EXCEPT !.pass = "write"]
            /\ UNCHANGED <<first_outcome, last_outcome>>
     ELSE IF "Item" \notin DOMAIN _structs
       THEN Compile_end(Raised("KeyError"))
     ELSE /\ compiling' = [compiling EXCEPT !.pass = "write",
                                            !.box_size = get_struct("Item").size]
          /\ UNCHANGED <<first_outcome, last_outcome>>
  /\ UNCHANGED _structs
  /\ UNCHANGED notRegistryVars

\* The write pass: BoxDeclaration.write_teal writes `pushint {box_size}`
Compile_write ==
  /\ compiling.pass = "write"
  /\ Compile_end(Assembly(compiling.box_size))
  /\ UNCHANGED _structs
  /\ UNCHANGED notRegistryVars

-----------------------------------------------------------------------------
(* Pretty-printing.  A line is the sequence of the pieces that the pattern *)
(* of its statement tells apart; a node is [kind, groups], the groups of   *)
(* the pattern in order.  The programs are a definition of the struct Item *)
(* followed by line statements at top level; the struct definition is not  *)
(* part of the model.                                                      *)

\* Bound: the number of line statements of a program
MaxStatements == 3

\* The lines of the programs explored
RoundTripLines ==
  {<<>>, <<"#pragma version ", "8">>, <<"#", " comment">>}
    \cup {<<"box<", "Item", "> ", "b", " = ", method, "Box(", "\"k\"", ")">> :
            method \in {"Open", "Create"}}
    \cup {<<"box<", "Item", "> ", "b", " = ", "Box(", "\"k\"", ")">>}

InitRoundTrip ==
  /\ child_nodes = <<>>
  /\ printed = <<>>
  /\ reparsed = <<>>
  /\ round_trip = "reading"

NoMatch == [kind |-> "ParseError", groups |-> <<>>]

\* Node.__init__ of BoxDeclaration: the pattern
\* box<struct_name> name = (Open|Create)?Box(key); a group that matched
\* nothing is None
BoxDeclaration_init(line) ==
  IF Len(line) = 9 /\ line[6] \in {"Open", "Create"} /\ line[7] = "Box("
    THEN [kind |-> "BoxDeclaration", groups |-> <<line[2], line[4], line[6], line[8]>>]
  ELSE IF Len(line) = 8 /\ line[6] = "Box("
    THEN [kind |-> "BoxDeclaration", groups |-> <<line[2], line[4], "None", line[7]>>]
  ELSE NoMatch

\* LineStatement.consume of the line numbered n
LineStatement_parse(line, n) ==
  IF line # <<>> /\ line[1] = "#pragma version "
    THEN IF n # 1 THEN NoMatch
         ELSE [kind |-> "TealVersion", groups |-> <<line[2]>>]
  ELSE IF line # <<>> /\ line[1] = "#"
    THEN [kind |-> "Comment", groups |-> <<line[2]>>]
  ELSE IF line = <<>> THEN [kind |-> "Blank", groups |-> <<>>]
  ELSE IF line[1] = "box<" THEN BoxDeclaration_init(line)
  ELSE NoMatch

\* BoxDeclaration._tealish: f"{self.method}Box(", where None formats as "None"
BoxDeclaration_tealish(node) ==
  <<"box<", node.groups[1], "> ", node.groups[2], " = ", node.groups[3],
    "Box(", node.groups[4], ")">>

\* TealVersion._tealish, Comment._tealish, Blank._tealish,
\* BoxDeclaration._tealish
tealish(node) ==
  CASE node.kind = "TealVersion" -> <<"#pragma version ", node.groups[1]>>
    [] node.kind = "Comment" -> <<"#", node.groups[1]>>
    [] node.kind = "Blank" -> <<>>
    [] node.kind = "BoxDeclaration" -> BoxDeclaration_tealish(node)

\* Program.consume reads one more line of an accepted program
RoundTrip_consume(line) ==
  /\ round_trip = "reading"
  /\ Len(child_nodes) < MaxStatements
  /\ LineStatement_parse(line, Len(child_nodes) + 1) # NoMatch
  /\ child_nodes' = Append(child_nodes, LineStatement_parse(line, Len(child_nodes) + 1))
  /\ UNCHANGED <<printed, reparsed, round_trip>>
  /\ UNCHANGED notRoundTripVars

\* Program._tealish
Program_tealish ==
  /\ round_trip = "reading"
  /\ printed' = [i \in 1..Len(child_nodes) |-> tealish(child_nodes[i])]
  /\ round_trip' = "printed"
  /\ UNCHANGED <<child_nodes, reparsed>>
  /\ UNCHANGED notRoundTripVars

\* Program.consume of the printed text
RoundTrip_parse ==
  /\ round_trip = "printed"
  /\ LET nodes == [i \in 1..Len(printed) |-> LineStatement_parse(printed[i], i)]
         ok == \A i \in 1..Len(printed) : nodes[i] # NoMatch
     IN /\ reparsed' = IF ok THEN nodes ELSE <<>>
        /\ round_trip' = IF ok THEN "parsed" ELSE "ParseError"
  /\ UNCHANGED <<child_nodes, printed>>
  /\ UNCHANGED notRoundTripVars

-----------------------------------------------------------------------------
(* Inner transactions.  The programs are top-level sequences of            *)
(* inner_group blocks holding inner_txn blocks, inner_txn blocks and       *)
(* assert statements; an inner_txn sets no fields.  An instruction is      *)
(* [op, arg]; comments and blank lines of the output are left out.         *)

\* Bounds: the top-level statements of a program, the inner_txn blocks of an
\* inner_group, and the highest scratch slot of the variables of a program
MaxInnerNodes == 3
MaxInners == 2
MaxSlot == 1

I(op, arg) == [op |-> op, arg |-> arg]

\* The numbers of field setters of the inner_txn statements explored
SetterCounts == {0, 1}

InitInner ==
  /\ inner_nodes = <<>>
  /\ macro_option = "None"
  /\ use_inner_txns_macro = "None"
  /\ max_slot = 0
  /\ flag_slot = -1
  /\ written = 0
  /\ output = <<>>
  /\ pass = "new"

\* The compiler is created with the macro option `option`; the variables of
\* the program take the scratch slots 0..slot
Compiler_init(option, slot) ==
  /\ pass = "new"
  /\ macro_option' = option
  /\ use_inner_txns_macro' = option
  /\ max_slot' = slot
  /\ pass' = "build"
  /\ UNCHANGED <<inner_nodes, flag_slot, written, output>>
  /\ UNCHANGED notInnerVars

\* Program.consume adds a statement
Inner_consume(n) ==
  /\ pass = "build"
  /\ Len(inner_nodes) < MaxInnerNodes
  /\ inner_nodes' = Append(inner_nodes, n)
  /\ UNCHANGED <<macro_option, use_inner_txns_macro, max_slot, flag_slot,
                 written, output, pass>>
  /\ UNCHANGED notInnerVars

\* Program.process, after the nodes have been processed
Program_process_macro_IgnoreOption ==
  /\ pass = "build"
  /\ LET has_inner_group ==
           \E i \in 1..Len(inner_nodes) : inner_nodes[i].kind = "InnerGroup"
         macro == IF has_inner_group THEN "True" ELSE use_inner_txns_macro
     IN /\ use_inner_txns_macro' = macro
        /\ flag_slot' = IF macro = "True" THEN max_slot + 1 ELSE flag_slot
        /\ max_slot' = IF macro = "True" THEN max_slot + 1 ELSE max_slot
  /\ pass' = "write"
  /\ UNCHANGED <<inner_nodes, macro_option, written, output>>
  /\ UNCHANGED notInnerVars
Program_process_macro ==
  /\ pass = "build"
  /\ LET has_inner_group ==
           \E i \in 1..Len(inner_nodes) : inner_nodes[i].kind = "InnerGroup"
         macro == IF use_inner_txns_macro = "None" /\ has_inner_group
                    THEN "True" ELSE use_inner_txns_macro
     IN /\ use_inner_txns_macro' = macro
        /\ flag_slot' = IF macro = "True" THEN max_slot + 1 ELSE flag_slot
        /\ max_slot' = IF macro = "True" THEN max_slot + 1 ELSE max_slot
  /\ pass' = "write"
  /\ UNCHANGED <<inner_nodes, macro_option, written, output>>
  /\ UNCHANGED notInnerVars

\* InnerTxnFieldSetter.write_teal of the n field setters of an inner_txn
RECURSIVE Setters_teal(_)
Setters_teal(n) ==
  IF n = 0 THEN <<>> ELSE <<I("itxn_field", <<>>)>> \o Setters_teal(n - 1)

\* InnerTxn.write_teal: the flag is set to False, then read
InnerTxn_teal(macro, setters) ==
  LET flag == "False"
  IN IF flag = "True"
       THEN <<I("callsub", <<"_itxn_begin">>)>> \o Setters_teal(setters)
              \o <<I("callsub", <<"_itxn_submit">>)>>
       ELSE <<I("itxn_begin", <<>>)>> \o Setters_teal(setters)
              \o <<I("itxn_submit", <<>>)>>

RECURSIVE Inners_teal(_, _, _)
Inners_teal(n, macro, setters) ==
  IF n = 0 THEN <<>>
  ELSE InnerTxn_teal(macro, setters) \o Inners_teal(n - 1, "False", setters)

\* The next child node of the program is of kind `kind`
Writing(kind) ==
  /\ pass = "write"
  /\ written < Len(inner_nodes)
  /\ inner_nodes[written + 1].kind = kind
  /\ written' = written + 1
  /\ UNCHANGED <<inner_nodes, macro_option, max_slot, flag_slot, pass>>
  /\ UNCHANGED notInnerVars

\* InnerGroup.write_teal, with the InnerTxn.write_teal of its children
InnerGroup_write_teal ==
  /\ Writing("InnerGroup")
  /\ output' = output \o <<I("callsub", <<"_itxn_group_begin">>)>>
                 \o Inners_teal(inner_nodes[written + 1].inners, use_inner_txns_macro,
                                inner_nodes[written + 1].setters)
                 \o <<I("callsub", <<"_itxn_group_submit">>)>>
  /\ use_inner_txns_macro' =
       IF inner_nodes[written + 1].inners > 0 THEN "False" ELSE use_inner_txns_macro

\* InnerTxn.write_teal of an inner_txn outside a group
InnerTxn_write_teal ==
  /\ Writing("InnerTxn")
  /\ output' = output \o InnerTxn_teal(use_inner_txns_macro,
                                          inner_nodes[written + 1].setters)
  /\ use_inner_txns_macro' = "False"

\* Assert.write_teal
Assert_write_teal ==
  /\ Writing("Assert")
  /\ output' = output \o <<I("assert", <<>>)>>
  /\ UNCHANGED use_inner_txns_macro

\* Program.write_teal: the text of the macro subroutines for the flag in
\* scratch slot `slot`, one instruction per element
Macro_group_begin(slot) ==
  << I("label", <<"_itxn_group_begin">>),
       I("load", <<slot>>), I("!", <<>>), I("assert", <<>>),
       I("int", <<"1">>), I("store", <<slot>>), I("retsub", <<>>) >>

Macro_begin_NoAdvance(slot) ==
  << I("label", <<"_itxn_begin">>),
       I("load", <<slot>>),
       I("switch", <<"_itxn_begin__0", "_itxn_begin__1", "_itxn_begin__2">>),
       I("err", <<>>),
     I("label", <<"_itxn_begin__0">>), I("itxn_begin", <<>>), I("retsub", <<>>),
     I("label", <<"_itxn_begin__1">>), I("itxn_begin", <<>>),
       I("int", <<"1">>), I("store", <<slot>>), I("retsub", <<>>),
     I("label", <<"_itxn_begin__2">>), I("itxn_next", <<>>), I("retsub", <<>>) >>
Macro_begin(slot) ==
  << I("label", <<"_itxn_begin">>),
       I("load", <<slot>>),
       I("switch", <<"_itxn_begin__0", "_itxn_begin__1", "_itxn_begin__2">>),
       I("err", <<>>),
     I("label", <<"_itxn_begin__0">>), I("itxn_begin", <<>>), I("retsub", <<>>),
     I("label", <<"_itxn_begin__1">>), I("itxn_begin", <<>>),
       I("int", <<"2">>), I("store", <<slot>>), I("retsub", <<>>),
     I("label", <<"_itxn_begin__2">>), I("itxn_next", <<>>), I("retsub", <<>>) >>

Macro_submit(slot) ==
  << I("label", <<"_itxn_submit">>),
       I("load", <<slot>>), I("bz", <<"_itxn_submit__0">>), I("retsub", <<>>),
     I("label", <<"_itxn_submit__0">>), I("itxn_submit", <<>>), I("retsub", <<>>) >>

Macro_group_submit_NoReset(slot) ==
  << I("label", <<"_itxn_group_submit">>),
       I("itxn_submit", <<>>), I("retsub", <<>>) >>
Macro_group_submit(slot) ==
  << I("label", <<"_itxn_group_submit">>),
       I("itxn_submit", <<>>),
       I("int", <<"0">>), I("store", <<slot>>), I("retsub", <<>>) >>

MacroTeal(slot) ==
  Macro_group_begin(slot) \o Macro_begin(slot) \o Macro_submit(slot)
    \o Macro_group_submit(slot)

\* Program.write_teal, after the child nodes have been written
Program_write_macro ==
  /\ pass = "write"
  /\ written = Len(inner_nodes)
  /\ output' = IF use_inner_txns_macro = "True"
                 THEN output \o MacroTeal(ToString(flag_slot)) ELSE output
  /\ pass' = "done"
  /\ UNCHANGED <<inner_nodes, macro_option, use_inner_txns_macro, max_slot,
                 flag_slot, written>>
  /\ UNCHANGED notInnerVars

-----------------------------------------------------------------------------
(* The macro subroutines on the virtual machine: a program calls them in   *)
(* any order; the scratch slot of the flag starts at 0 and only the        *)
(* subroutines write it.                                                   *)

\* Bound: the number of calls a program makes
MaxCalls == 6

MacroSlot == ToString(MaxSlot + 1)
MacroCode == MacroTeal(MacroSlot)
MacroSubs == {"_itxn_group_begin", "_itxn_begin", "_itxn_submit", "_itxn_group_submit"}

InitMacro ==
  /\ pc = 0
  /\ vm_stack = <<>>
  /\ scratch = [slot \in {MacroSlot} |-> 0]
  /\ entry = [sub |-> "none", flag |-> 0]
  /\ call_ops = <<>>
  /\ vm_state = "idle"
  /\ calls = 0
  /\ history = <<>>

\* The instruction that follows the label
Target(label) ==
  1 + CHOOSE i \in 1..Len(MacroCode) : MacroCode[i] = I("label", <<label>>)

\* The value of a decimal immediate
IntOf(digits) == CHOOSE n \in 0..100 : ToString(n) = digits

\* The machine is about to execute an instruction with an opcode of `ops`
Executing(ops) ==
  /\ vm_state = "running"
  /\ MacroCode[pc].op \in ops
  /\ UNCHANGED <<entry, calls>>
  /\ UNCHANGED notMacroVars

\* callsub in the program
VM_callsub(sub) ==
  /\ vm_state \in {"idle", "returned"}
  /\ calls < MaxCalls
  /\ calls' = calls + 1
  /\ pc' = Target(sub)
  /\ entry' = [sub |-> sub, flag |-> scratch[MacroSlot]]
  /\ call_ops' = <<>>
  /\ vm_state' = "running"
  /\ UNCHANGED <<vm_stack, scratch, history>>
  /\ UNCHANGED notMacroVars

\* load, int, !, store
VM_stack_op ==
  /\ Executing({"load", "int", "!", "store"})
  /\ LET i == MacroCode[pc]
         top == vm_stack[Len(vm_stack)]
         rest == SubSeq(vm_stack, 1, Len(vm_stack) - 1)
     IN /\ vm_stack' =
             CASE i.op = "load" -> Append(vm_stack, scratch[i.arg[1]])
               [] i.op = "int" -> Append(vm_stack, IntOf(i.arg[1]))
               [] i.op = "!" -> Append(rest, IF top = 0 THEN 1 ELSE 0)
               [] i.op = "store" -> rest
        /\ scratch' = IF i.op = "store" THEN [scratch EXCEPT ![i.arg[1]] = top]
                      ELSE scratch
  /\ pc' = pc + 1
  /\ UNCHANGED <<call_ops, vm_state, history>>

\* switch, bz
VM_branch ==
  /\ Executing({"switch", "bz"})
  /\ LET i == MacroCode[pc]
         top == vm_stack[Len(vm_stack)]
     IN pc' = CASE i.op = "bz" -> IF top = 0 THEN Target(i.arg[1]) ELSE pc + 1
                [] i.op = "switch" ->
                     IF top < Len(i.arg) THEN Target(i.arg[top + 1]) ELSE pc + 1
  /\ vm_stack' = SubSeq(vm_stack, 1, Len(vm_stack) - 1)
  /\ UNCHANGED <<scratch, call_ops, vm_state, history>>

\* assert, err
VM_assert ==
  /\ Executing({"assert", "err"})
  /\ LET fails == MacroCode[pc].op = "err" \/ vm_stack[Len(vm_stack)] = 0
     IN /\ vm_state' = IF fails THEN "failed" ELSE "running"
        /\ pc' = IF fails THEN pc ELSE pc + 1
        /\ vm_stack' = IF fails THEN vm_stack
                       ELSE SubSeq(vm_stack, 1, Len(vm_stack) - 1)
  /\ UNCHANGED <<scratch, call_ops, history>>

\* itxn_begin, itxn_next, itxn_submit
VM_itxn ==
  /\ Executing({"itxn_begin", "itxn_next", "itxn_submit"})
  /\ call_ops' = Append(call_ops, MacroCode[pc].op)
  /\ pc' = pc + 1
  /\ UNCHANGED <<vm_stack, scratch, vm_state, history>>

\* retsub; the call that returns is added to the calls the program has made
VM_retsub ==
  /\ Executing({"retsub"})
  /\ vm_state' = "returned"
  /\ pc' = 0
  /\ history' = Append(history, [sub |-> entry.sub, flag |-> entry.flag,
                                 ops |-> call_ops])
  /\ UNCHANGED <<vm_stack, scratch, call_ops>>

-----------------------------------------------------------------------------
(* One route of a router.  The function the route names is                 *)
(* [decorators, attributes, args, returns]: args and returns are the type  *)
(* names of its parameters and of its return values.  Its body is          *)
(* `return r0, r1, ...`, one expression for each declared return.           *)
(* Route.process builds the expressions that read the application          *)
(* arguments, Router.write_teal writes the route, and the virtual machine  *)
(* runs what was written.  A stack value is [t, v]: t is "int" or "bytes", *)
(* v the list of the pieces a byte string was concatenated from.           *)

\* Bounds: the numbers of parameters and of return values of the function
MaxArgs == 2
MaxReturns == 3

\* Type names a parameter is declared with, and type names of return values
ArgTypeNames == {"bytes", "int", "uint8", "addr", "uint64"}
ReturnTypeNames == {"int", "bytes"}

\* The decorator lines of the routed functions explored
RouteDecoratorLists ==
  { <<>>,
    <<Decorator("public", <<>>)>>,
    <<Decorator("public", <<"OnCompletion", "OptIn">>)>>,
    <<Decorator("public", <<"OnCompletion", "CreateApplication">>)>>,
    <<Decorator("public", <<"OnCompletion", "Never">>)>> }

RECURSIVE SeqsUpTo(_, _)
SeqsUpTo(S, n) ==
  IF n = 0 THEN {<<>>}
  ELSE SeqsUpTo(S, n - 1)
         \cup {Append(q, x) : q \in {r \in SeqsUpTo(S, n - 1) : Len(r) = n - 1},
                              x \in S}

\* tealish_builtins.constants: the names defined
constants ==
  {"NoOp", "OptIn", "CloseOut", "ClearState", "UpdateApplication",
   "DeleteApplication", "Pay", "Acfg", "Axfer", "Afrz", "Appl"}

\* get_type_instance: the class and the size in bytes of a type name
get_type_instance(type_name) ==
  CASE type_name = "int" -> [class |-> "IntType", size |-> 8]
    [] type_name = "uint8" -> [class |-> "IntType", size |-> 1]
    [] type_name = "uint64" -> [class |-> "IntType", size |-> 8]
    [] type_name = "bytes" -> [class |-> "BytesType", size |-> 0]
    [] type_name = "addr" -> [class |-> "BytesType", size |-> 32]

InitRoute ==
  /\ route_func = [decorators |-> <<>>, attributes |-> <<>>, args |-> <<>>,
                   returns |-> <<>>]
  /\ route_state = "new"
  /\ arg_expressions = <<>>
  /\ route_teal = <<>>
  /\ route_pc = [code |-> "route", at |-> 0]
  /\ route_stack = <<>>
  /\ logged = <<>>

\* DecoratedFunc.consume of the decorator lines and `func f(args) returns:`
Route_build(decorators, args, returns) ==
  /\ route_state = "new"
  /\ route_func' = [decorators |-> decorators,
                    attributes |-> DecoratedFunc_set_func(<<>>, decorators),
                    args |-> args, returns |-> returns]
  /\ route_state' = "built"
  /\ UNCHANGED <<arg_expressions, route_teal, route_pc, route_stack, logged>>
  /\ UNCHANGED notRouteVars

\* Route.process, the body of the loop over the parameters: the text of the
\* expression for the parameter at position i (from 0) of type type_name;
\* `line` is the text left by the iteration before, "" before the first
Route_line(i, type_name, line) ==
  LET a == ToString(i + 1)
      arg_type == get_type_instance(type_name)
  IN IF type_name = "bytes" THEN "Txn.ApplicationArgs[" \o a \o "]"
     ELSE IF type_name = "int"
       THEN "FromBytes(Txn.ApplicationArgs[" \o a \o "], " \o type_name \o ")"
     ELSE IF arg_type.class = "IntType" /\ arg_type.size # 8
       THEN "Cast(btoi(Txn.ApplicationArgs[" \o a \o "]), " \o type_name \o ")"
     ELSE IF arg_type.class = "BytesType"
       THEN "Cast(Txn.ApplicationArgs[" \o a \o "], " \o type_name \o ")"
     ELSE line

\* Route.process, the loop: the expressions built for the parameters from
\* position i on, or <<"UnboundLocalError">> when `line` is read before it
\* was ever assigned
RECURSIVE Route_lines(_, _, _)
Route_lines(args, i, line) ==
  IF i >= Len(args) THEN <<>>
  ELSE LET new_line == Route_line(i, args[i + 1], line)
       IN IF new_line = "" THEN <<"UnboundLocalError">>
          ELSE LET rest == Route_lines(args, i + 1, new_line)
               IN IF rest = <<"UnboundLocalError">> THEN rest
                  ELSE <<new_line>> \o rest

\* Route.process
Route_process_args ==
  /\ route_state = "built"
  /\ IF "public" \notin DOMAIN route_func.attributes
       THEN /\ route_state' = "CompileError"
            /\ UNCHANGED arg_expressions
       ELSE LET lines == Route_lines(route_func.args, 0, "")
            IN IF lines = <<"UnboundLocalError">>
                 THEN /\ route_state' = "UnboundLocalError"
                      /\ UNCHANGED arg_expressions
                 ELSE /\ route_state' = "processed"
                      /\ arg_expressions' = lines
  /\ UNCHANGED <<route_func, route_teal, route_pc, route_stack, logged>>
  /\ UNCHANGED notRouteVars

\* Router.write_teal: the instructions that follow `callsub` for the
\* returns from position i (from 0) on
RECURSIVE Router_uncover(_, _)
Router_uncover(returns, i) ==
  IF i >= Len(returns) THEN <<>>
  ELSE (IF i > 0 THEN <<I("uncover", <<ToString(i)>>)>> ELSE <<>>)
         \o (IF get_type_instance(returns[i + 1]).class = "IntType"
               THEN <<I("itob", <<>>)>> ELSE <<>>)
         \o Router_uncover(returns, i + 1)

RECURSIVE Router_concat(_)
Router_concat(n) ==
  IF n <= 0 THEN <<>> ELSE <<I("concat", <<>>)>> \o Router_concat(n - 1)

\* Router.write_teal with one `concat` for each return value
Router_log_ConcatEach(returns) ==
  IF returns = <<>> THEN <<>>
  ELSE Router_uncover(returns, 0) \o Router_concat(Len(returns))
         \o << I("pushbytes", <<"0x151f7c75">>), I("swap", <<>>),
               I("concat", <<>>), I("log", <<>>) >>

Router_log(returns) ==
  IF returns = <<>> THEN <<>>
  ELSE Router_uncover(returns, 0) \o Router_concat(Len(returns) - 1)
         \o << I("pushbytes", <<"0x151f7c75">>), I("swap", <<>>),
               I("concat", <<>>), I("log", <<>>) >>

\* Router.write_teal: the instructions of the route, after its label
Router_write_teal ==
  /\ route_state = "processed"
  /\ LET public == route_func.attributes["public"]
         oc == IF public # <<>> /\ public[1] = "OnCompletion"
                 THEN public[2] ELSE "NoOp"
     IN IF oc # "CreateApplication" /\ oc \notin constants
          THEN /\ route_state' = "KeyError"
               /\ UNCHANGED route_teal
          ELSE /\ route_state' = "written"
               /\ route_teal' =
                    <<I("assert", <<IF oc = "CreateApplication"
                                      THEN "ApplicationID" ELSE "OnCompletion">>)>>
                      \o [k \in 1..Len(arg_expressions) |->
                            I("expression", <<arg_expressions[k], "bytes">>)]
                      \o <<I("callsub", <<"__func__f">>)>>
                      \o Router_log(route_func.returns)
                      \o <<I("pushint", <<"1">>), I("return", <<>>)>>
  /\ UNCHANGED <<route_func, arg_expressions, route_pc, route_stack, logged>>
  /\ UNCHANGED notRouteVars

\* Func.write_teal of the routed function, after its label: one `store` for
\* each parameter, then Return.write_teal of `return r0, r1, ...`, which
\* writes the expressions from the last to the first
Func_write_teal(f) ==
  [k \in 1..Len(f.args) |-> I("store", <<>>)]
    \o [k \in 1..Len(f.returns) |->
          LET e == Len(f.returns) - k
          IN I("expression",
               <<"r" \o ToString(e),
                 IF get_type_instance(f.returns[e + 1]).class = "IntType"
                   THEN "int" ELSE "bytes">>)]
    \o <<I("retsub", <<>>)>>

\* The application call reaches the label of the route
Route_call ==
  /\ route_state = "written"
  /\ route_state' = "running"
  /\ route_pc' = [code |-> "route", at |-> 1]
  /\ UNCHANGED <<route_func, arg_expressions, route_teal, route_stack, logged>>
  /\ UNCHANGED notRouteVars

\* The virtual machine executes the instruction at route_pc
Route_step ==
  /\ route_state = "running"
  /\ LET code == IF route_pc.code = "route" THEN route_teal
                 ELSE Func_write_teal(route_func)
         ins == code[route_pc.at]
         n == Len(route_stack)
         next == [route_pc EXCEPT !.at = @ + 1]
         Fail == /\ route_state' = "failed"
                 /\ UNCHANGED <<route_pc, route_stack, logged>>
         Go(pc_, stack_, logged_) ==
           /\ route_pc' = pc_
           /\ route_stack' = stack_
           /\ logged' = logged_
           /\ UNCHANGED route_state
     IN CASE ins.op \in {"assert", "pushint"} -> Go(next, route_stack, logged)
          [] ins.op = "expression" ->
               Go(next, Append(route_stack, [t |-> ins.arg[2], v |-> <<ins.arg[1]>>]),
                  logged)
          [] ins.op = "pushbytes" ->
               Go(next, Append(route_stack, [t |-> "bytes", v |-> <<ins.arg[1]>>]),
                  logged)
          [] ins.op = "store" ->
               IF n < 1 THEN Fail ELSE Go(next, SubSeq(route_stack, 1, n - 1), logged)
          [] ins.op = "callsub" ->
               Go([code |-> "func", at |-> 1], route_stack, logged)
          [] ins.op = "retsub" ->
               Go([code |-> "route",
                   at |-> 1 + CHOOSE k \in 1..Len(route_teal) :
                                route_teal[k].op = "callsub"],
                  route_stack, logged)
          [] ins.op = "uncover" ->
               LET d == IntOf(ins.arg[1])
               IN IF n < d + 1 THEN Fail
                  ELSE Go(next,
                          SubSeq(route_stack, 1, n - d - 1)
                            \o SubSeq(route_stack, n - d + 1, n)
                            \o <<route_stack[n - d]>>,
                          logged)
          [] ins.op = "itob" ->
               IF n < 1 \/ route_stack[n].t # "int" THEN Fail
               ELSE Go(next,
                       [route_stack EXCEPT
                          ![n] = [t |-> "bytes", v |-> <<"itob " \o @.v[1]>>]],
                       logged)
          [] ins.op = "swap" ->
               IF n < 2 THEN Fail
               ELSE Go(next,
                       SubSeq(route_stack, 1, n - 2)
                         \o <<route_stack[n], route_stack[n - 1]>>,
                       logged)
          [] ins.op = "concat" ->
               IF n < 2 \/ route_stack[n].t # "bytes" \/ route_stack[n - 1].t # "bytes"
                 THEN Fail
               ELSE Go(next,
                       SubSeq(route_stack, 1, n - 2)
                         \o <<[t |-> "bytes",
                               v |-> route_stack[n - 1].v \o route_stack[n].v]>>,
                       logged)
          [] ins.op = "log" ->
               IF n < 1 \/ route_stack[n].t # "bytes" THEN Fail
               ELSE Go(next, SubSeq(route_stack, 1, n - 1),
                       Append(logged, route_stack[n].v))
          [] ins.op = "return" ->
               /\ route_state' = "returned"
               /\ UNCHANGED <<route_pc, route_stack, logged>>
  /\ UNCHANGED <<route_func, arg_expressions, route_teal>>
  /\ UNCHANGED notRouteVars

-----------------------------------------------------------------------------
(* `break`: the open compound statements are kept as a list, outermost     *)
(* first; a Break node remembers its enclosing while when it is built and  *)
(* writes the branch when the program is written.                          *)

\* Bounds: the number of compound statements open at once, the number of
\* if, while and for statements of a program, and the number of its break
\* statements
MaxOpen == 3
MaxConditionals == 3
MaxBreaks == 1

InitBreak ==
  /\ ancestors = <<>>
  /\ loop_count = 0
  /\ break_nodes = <<>>
  /\ break_outcome = "running"
  /\ break_teal = <<>>

\* IfStatement.__init__, WhileStatement.__init__, ForStatement.__init__:
\* the statement takes the next conditional index; its end label
Conditional_init(kind) ==
  /\ break_outcome = "running"
  /\ Len(ancestors) < MaxOpen
  /\ loop_count < MaxConditionals
  /\ kind \in {"IfStatement", "WhileStatement", "ForStatement"}
  /\ ancestors' = Append(ancestors,
                         [kind |-> kind,
                          end_label |-> "l" \o ToString(loop_count) \o "_end"])
  /\ loop_count' = loop_count + 1
  /\ UNCHANGED <<break_nodes, break_outcome, break_teal>>
  /\ UNCHANGED notBreakVars

\* Func.__init__ of a function nested in the open statements
Nested_func_init ==
  /\ break_outcome = "running"
  /\ Len(ancestors) < MaxOpen
  /\ ancestors' = Append(ancestors, [kind |-> "Func", end_label |-> ""])
  /\ UNCHANGED <<loop_count, break_nodes, break_outcome, break_teal>>
  /\ UNCHANGED notBreakVars

\* The `end` of the innermost open statement
Compound_end ==
  /\ break_outcome = "running"
  /\ ancestors # <<>>
  /\ ancestors' = Pop(ancestors)
  /\ UNCHANGED <<loop_count, break_nodes, break_outcome, break_teal>>
  /\ UNCHANGED notBreakVars

\* Break.__init__ with the outermost enclosing while as parent_loop
Break_init_Outermost ==
  /\ break_outcome = "running"
  /\ Len(break_nodes) < MaxBreaks
  /\ LET whiles == {i \in 1..Len(ancestors) : ancestors[i].kind = "WhileStatement"}
     IN IF whiles = {}
          THEN /\ break_outcome' = "ParseError"
               /\ break_nodes' = Append(break_nodes,
                                        [ancestors |-> ancestors, parent_loop |-> ""])
          ELSE /\ UNCHANGED break_outcome
               /\ break_nodes' =
                    Append(break_nodes,
                           [ancestors |-> ancestors,
                            parent_loop |->
                              ancestors[CHOOSE i \in whiles :
                                          \A j \in whiles : i <= j].end_label])
  /\ UNCHANGED <<ancestors, loop_count, break_teal>>
  /\ UNCHANGED notBreakVars

\* Break.__init__
Break_init ==
  /\ break_outcome = "running"
  /\ Len(break_nodes) < MaxBreaks
  /\ LET parent_loop == find_parent(ancestors, "WhileStatement")
     IN IF parent_loop = 0
          THEN /\ break_outcome' = "ParseError"
               /\ break_nodes' = Append(break_nodes,
                                        [ancestors |-> ancestors, parent_loop |-> ""])
          ELSE /\ UNCHANGED break_outcome
               /\ break_nodes' = Append(break_nodes,
                                        [ancestors |-> ancestors,
                                         parent_loop |-> ancestors[parent_loop].end_label])
  /\ UNCHANGED <<ancestors, loop_count, break_teal>>
  /\ UNCHANGED notBreakVars

\* Break.write_teal of every Break node, when the program is written
Break_write_teal ==
  /\ break_outcome = "running"
  /\ ancestors = <<>>
  /\ break_outcome' = "written"
  /\ break_teal' = [k \in 1..Len(break_nodes) |-> break_nodes[k].parent_loop]
  /\ UNCHANGED <<ancestors, loop_count, break_nodes>>
  /\ UNCHANGED notBreakVars

-----------------------------------------------------------------------------
(* The field setters of one inner_txn: InnerTxn.consume builds a node for  *)
(* each setter line, InnerTxn.process checks the indices.                  *)

\* Bound: the number of field setters of the inner_txn
MaxSetters == 3

\* The setter lines explored: `Accounts: e`, `Accounts[0]: e`, ...
SetterNames == {"Accounts", "Assets"}
SetterIndices == {"", "0", "1", "2", "100"}

InitSetter ==
  /\ setter_lines = <<>>
  /\ setter_nodes = <<>>
  /\ setter_outcome = "build"

\* InnerTxnFieldSetter.pattern matched against `name[index]: e` (without
\* brackets when index is ""): the optional group takes one or two digits
\* between the brackets; with more digits the group matches nothing and the
\* lazy field_name runs up to the colon, brackets included
InnerTxnFieldSetter_init(name, index) ==
  IF index = "" THEN [field_name |-> name, index |-> -1]
  ELSE IF IntOf(index) < 100 THEN [field_name |-> name, index |-> IntOf(index)]
  ELSE [field_name |-> name \o "[" \o index \o "]", index |-> -1]

\* InnerTxn.consume: one setter line
InnerTxn_add_child(name, index) ==
  /\ setter_outcome = "build"
  /\ Len(setter_lines) < MaxSetters
  /\ setter_lines' = Append(setter_lines, [name |-> name, index |-> index])
  /\ setter_nodes' = Append(setter_nodes, InnerTxnFieldSetter_init(name, index))
  /\ UNCHANGED setter_outcome
  /\ UNCHANGED notSetterVars

\* InnerTxn.process, the loop over the child nodes from position k on;
\* array_fields gives the number of setters appended for each field name
RECURSIVE InnerTxn_indices(_, _, _)
InnerTxn_indices(nodes, k, array_fields) ==
  IF k > Len(nodes) THEN "ok"
  ELSE LET node == nodes[k]
           n == IF node.field_name \in DOMAIN array_fields
                  THEN array_fields[node.field_name] ELSE 0
       IN IF node.index = -1 THEN InnerTxn_indices(nodes, k + 1, array_fields)
          ELSE IF n = node.index
            THEN InnerTxn_indices(nodes, k + 1,
                                  (node.field_name :> n + 1) @@ array_fields)
          ELSE "ParseError"

\* InnerTxn.process
InnerTxn_process ==
  /\ setter_outcome = "build"
  /\ setter_outcome' = InnerTxn_indices(setter_nodes, 1, <<>>)
  /\ UNCHANGED <<setter_lines, setter_nodes>>
  /\ UNCHANGED notSetterVars

-----------------------------------------------------------------------------
(* One if statement.  The conditions and the bodies of its branches are    *)
(* abstracted: the text of the condition of branch i is the instruction    *)
(* `expression i`, which pushes condition_values[i], and the text of the   *)
(* body of branch i is the instruction `body i`, which falls through.      *)
(* Branches are numbered by their place in IfStatement.child_nodes.        *)

\* Bound: the number of elif branches of the statement
MaxElifs == 2
\* Bound: the conditional_count of the compiler when the statement is built
MaxConditionalCount == 1

Modifiers == {"", "not"}
ConditionValues == {0, 1, 2}

InitIf ==
  /\ if_statement = [modifier |-> "", conditional_index |-> 0, end_label |-> "",
                     next_label |-> ""]
  /\ if_children = <<>>
  /\ if_state = "none"
  /\ if_teal = <<>>
  /\ condition_values = <<>>
  /\ if_pc = 0
  /\ if_stack = <<>>
  /\ if_trace = <<>>

\* A branch node as its __init__ leaves it
Branch(kind, modifier) ==
  [kind |-> kind, modifier |-> modifier, label |-> "", next_label |-> ""]

\* IfStatement.elifs, as places in child_nodes
Elifs == {i \in 1..Len(if_children) : if_children[i].kind = "Elif"}

\* IfStatement.else_ is set
HasElse == \E i \in 1..Len(if_children) : if_children[i].kind = "Else"

\* IfStatement.consume, up to the IfThen: IfStatement.__init__ takes the
\* conditional_count of the compiler, add_if_then adds the IfThen
IfStatement_consume_if(modifier, count) ==
  /\ if_state = "none"
  /\ if_statement' =
       [modifier |-> modifier, conditional_index |-> count,
        end_label |-> "l" \o ToString(count) \o "_end",
        next_label |-> ""]
  /\ if_children' = <<Branch("IfThen", "")>>
  /\ if_state' = "open"
  /\ UNCHANGED <<if_teal, condition_values, if_pc, if_stack, if_trace>>
  /\ UNCHANGED notIfVars

\* IfStatement.consume, peek starts with "elif ": add_elif.  Else.consume
\* reads up to the `end`, so no branch follows an else.
IfStatement_add_elif(modifier) ==
  /\ if_state = "open"
  /\ ~HasElse
  /\ Cardinality(Elifs) < MaxElifs
  /\ if_children' =
       Append(if_children,
              [Branch("Elif", modifier) EXCEPT
                 !.label = "l" \o ToString(if_statement.conditional_index)
                             \o "_elif_" \o ToString(Cardinality(Elifs))])
  /\ UNCHANGED <<if_statement, if_state, if_teal, condition_values, if_pc,
                 if_stack, if_trace>>
  /\ UNCHANGED notIfVars

\* IfStatement.consume, peek starts with "else:": add_else
IfStatement_add_else ==
  /\ if_state = "open"
  /\ ~HasElse
  /\ if_children' =
       Append(if_children,
              [Branch("Else", "") EXCEPT
                 !.label = "l" \o ToString(if_statement.conditional_index)
                             \o "_else"])
  /\ UNCHANGED <<if_statement, if_state, if_teal, condition_values, if_pc,
                 if_stack, if_trace>>
  /\ UNCHANGED notIfVars

\* IfStatement.consume, peek is "end"
IfStatement_end ==
  /\ if_state = "open"
  /\ if_state' = "consumed"
  /\ UNCHANGED <<if_statement, if_children, if_teal, condition_values, if_pc,
                 if_stack, if_trace>>
  /\ UNCHANGED notIfVars

\* IfStatement.process, the labels: every child but the last gets the label
\* of the child after it, the statement gets the label of its second child
\* (end_label without one), the last child gets end_label
IfStatement_next_labels(children, end_label) ==
  [i \in 1..Len(children) |->
     [children[i] EXCEPT
        !.next_label = IF i = Len(children) THEN end_label
                       ELSE children[i + 1].label]]

IfStatement_process_SkipElifs ==
  /\ if_state = "consumed"
  /\ if_children' = IfStatement_next_labels(if_children, if_statement.end_label)
  /\ if_statement' = [if_statement EXCEPT !.next_label = if_statement.end_label]
  /\ if_state' = "processed"
  /\ UNCHANGED <<if_teal, condition_values, if_pc, if_stack, if_trace>>
  /\ UNCHANGED notIfVars
IfStatement_process ==
  /\ if_state = "consumed"
  /\ if_children' = IfStatement_next_labels(if_children, if_statement.end_label)
  /\ if_statement' =
       [if_statement EXCEPT
          !.next_label = IF Len(if_children) > 1 THEN if_children[2].label
                         ELSE if_statement.end_label]
  /\ if_state' = "processed"
  /\ UNCHANGED <<if_teal, condition_values, if_pc, if_stack, if_trace>>
  /\ UNCHANGED notIfVars

\* The condition and the jump of a branch: bnz with the modifier `not`, bz
\* without (IfStatement.write_teal, Elif.write_teal)
Condition_teal(i, modifier, next_label) ==
  << I("expression", <<ToString(i)>>),
     I(IF modifier = "not" THEN "bnz" ELSE "bz", <<next_label>>) >>

\* IfStatement.write_teal, the loop over the elifs from child i on
RECURSIVE Elifs_teal(_)
Elifs_teal(i) ==
  IF i \notin Elifs THEN <<>>
  ELSE LET n == if_children[i]
       IN <<I("label", <<n.label>>)>>
            \o Condition_teal(i, n.modifier, n.next_label)
            \o <<I("body", <<ToString(i)>>)>>
            \o (IF i + 1 \in Elifs \/ HasElse
                  THEN <<I("b", <<if_statement.end_label>>)>> ELSE <<>>)
            \o Elifs_teal(i + 1)

\* IfStatement.write_teal
IfStatement_write_teal ==
  /\ if_state = "processed"
  /\ if_teal' =
       Condition_teal(1, if_statement.modifier, if_statement.next_label)
         \o <<I("body", <<"1">>)>>
         \o (IF Elifs # {} \/ HasElse
               THEN <<I("b", <<if_statement.end_label>>)>> ELSE <<>>)
         \o Elifs_teal(2)
         \o (IF HasElse
               THEN << I("label", <<if_children[Len(if_children)].label>>),
                       I("body", <<ToString(Len(if_children))>>) >>
               ELSE <<>>)
         \o <<I("label", <<if_statement.end_label>>)>>
  /\ if_state' = "written"
  /\ UNCHANGED <<if_statement, if_children, condition_values, if_pc, if_stack,
                 if_trace>>
  /\ UNCHANGED notIfVars

\* The branches with a condition
Conditionals == {i \in 1..Len(if_children) : if_children[i].kind # "Else"}

\* The program starts the statement; values[i] is what the condition of
\* branch i will push
If_run(values) ==
  /\ if_state = "written"
  /\ Len(values) = Cardinality(Conditionals)
  /\ condition_values' = values
  /\ if_pc' = 1
  /\ if_state' = "running"
  /\ UNCHANGED <<if_statement, if_children, if_teal, if_stack, if_trace>>
  /\ UNCHANGED notIfVars

\* The places of if_teal that hold the label
LabelAt(label) == {i \in 1..Len(if_teal) : if_teal[i] = I("label", <<label>>)}

\* One instruction of the text on the virtual machine: a jump goes to the
\* line of its label, and the assembler rejects a label that is missing or
\* defined twice
If_step ==
  /\ if_state = "running"
  /\ IF if_pc > Len(if_teal)
       THEN /\ if_state' = "done"
            /\ UNCHANGED <<if_pc, if_stack, if_trace>>
       ELSE LET i == if_teal[if_pc]
                top == if_stack[Len(if_stack)]
                rest == SubSeq(if_stack, 1, Len(if_stack) - 1)
                jumps == CASE i.op = "b" -> TRUE
                           [] i.op = "bz" -> top = 0
                           [] i.op = "bnz" -> top # 0
                           [] OTHER -> FALSE
            IN IF jumps /\ Cardinality(LabelAt(i.arg[1])) # 1
                 THEN /\ if_state' = "failed"
                      /\ UNCHANGED <<if_pc, if_stack, if_trace>>
                 ELSE /\ if_state' = "running"
                      /\ if_pc' = IF jumps
                                    THEN CHOOSE p \in LabelAt(i.arg[1]) : TRUE
                                    ELSE if_pc + 1
                      /\ if_stack' =
                           CASE i.op = "expression" ->
                                  Append(if_stack,
                                         condition_values[IntOf(i.arg[1])])
                             [] i.op \in {"bz", "bnz"} -> rest
                             [] OTHER -> if_stack
                      /\ if_trace' =
                           CASE i.op = "expression" ->
                                  Append(if_trace,
                                         [e |-> "condition", n |-> i.arg[1]])
                             [] i.op = "body" ->
                                  Append(if_trace, [e |-> "body", n |-> i.arg[1]])
                             [] i.op = "label" ->
                                  Append(if_trace, [e |-> "label", n |-> i.arg[1]])
                             [] OTHER -> if_trace
  /\ UNCHANGED <<if_statement, if_children, if_teal, condition_values>>
  /\ UNCHANGED notIfVars

-----------------------------------------------------------------------------
(* One for loop, `for name in A:B:` or `for _ in A:B:`.  The bounds are    *)
(* numbers with A <= B; the text of the body is the instruction `body`,    *)
(* which leaves the stack and the loop slot as they are.                   *)

\* Bound: the largest end of a loop
MaxEnd == 3

ForSlots == {0, 1}
ForLabels == [start_label |-> "l0_for", end_label |-> "l0_end"]

InitFor ==
  /\ for_node = [kind |-> "none", start |-> 0, end |-> 0, slot |-> 0,
                 before |-> <<>>]
  /\ for_state = "none"
  /\ for_teal = <<>>
  /\ for_pc = 0
  /\ for_stack = <<>>
  /\ for_scratch = [slot \in ForSlots |-> 0]
  /\ for_trace = <<>>

\* ForStatement.write_teal
ForStatement_write_teal_IncrementFirst(start, end, slot) ==
  << I("expression", <<ToString(start)>>),
     I("store", <<ToString(slot)>>),
     I("label", <<ForLabels.start_label>>),
     I("load", <<ToString(slot)>>),
     I("expression", <<ToString(end)>>),
     I("==", <<>>),
     I("bnz", <<ForLabels.end_label>>),
     I("load", <<ToString(slot)>>),
     I("pushint", <<"1">>),
     I("+", <<>>),
     I("store", <<ToString(slot)>>),
     I("body", <<>>),
     I("b", <<ForLabels.start_label>>),
     I("label", <<ForLabels.end_label>>) >>
ForStatement_write_teal(start, end, slot) ==
  << I("expression", <<ToString(start)>>),
     I("store", <<ToString(slot)>>),
     I("label", <<ForLabels.start_label>>),
     I("load", <<ToString(slot)>>),
     I("expression", <<ToString(end)>>),
     I("==", <<>>),
     I("bnz", <<ForLabels.end_label>>),
     I("body", <<>>),
     I("load", <<ToString(slot)>>),
     I("pushint", <<"1">>),
     I("+", <<>>),
     I("store", <<ToString(slot)>>),
     I("b", <<ForLabels.start_label>>),
     I("label", <<ForLabels.end_label>>) >>

\* For_Statement.write_teal
For_Statement_write_teal(start, end) ==
  << I("expression", <<ToString(start)>>),
     I("dup", <<>>),
     I("label", <<ForLabels.start_label>>),
     I("expression", <<ToString(end)>>),
     I("==", <<>>),
     I("bnz", <<ForLabels.end_label>>),
     I("body", <<>>),
     I("pushint", <<"1">>),
     I("+", <<>>),
     I("dup", <<>>),
     I("b", <<ForLabels.start_label>>),
     I("pop", <<>>),
     I("label", <<ForLabels.end_label>>) >>

\* The program reaches the loop with the stack `before`
For_run(kind, start, end, slot, before) ==
  /\ for_state = "none"
  /\ start <= end
  /\ kind = "For_Statement" => slot = 0
  /\ for_node' = [kind |-> kind, start |-> start, end |-> end, slot |-> slot,
                  before |-> before]
  /\ for_teal' = IF kind = "ForStatement"
                   THEN ForStatement_write_teal(start, end, slot)
                   ELSE For_Statement_write_teal(start, end)
  /\ for_stack' = before
  /\ for_pc' = 1
  /\ for_state' = "running"
  /\ UNCHANGED <<for_scratch, for_trace>>
  /\ UNCHANGED notForVars

\* One instruction of the text on the virtual machine
For_step ==
  /\ for_state = "running"
  /\ IF for_pc > Len(for_teal)
       THEN /\ for_state' = "done"
            /\ UNCHANGED <<for_pc, for_stack, for_scratch, for_trace>>
       ELSE LET i == for_teal[for_pc]
                n == Len(for_stack)
                top == for_stack[n]
                under == for_stack[n - 1]
                drop(k) == SubSeq(for_stack, 1, n - k)
                needs == CASE i.op \in {"==", "+"} -> 2
                           [] i.op \in {"store", "dup", "pop", "bnz"} -> 1
                           [] OTHER -> 0
                jumps == i.op = "b" \/ (i.op = "bnz" /\ top # 0)
                target == CHOOSE p \in 1..Len(for_teal) :
                            for_teal[p] = I("label", <<i.arg[1]>>)
            IN IF n < needs
                 THEN /\ for_state' = "failed"
                      /\ UNCHANGED <<for_pc, for_stack, for_scratch, for_trace>>
                 ELSE /\ for_state' = "running"
                      /\ for_pc' = IF jumps THEN target ELSE for_pc + 1
                      /\ for_stack' =
                           CASE i.op \in {"expression", "pushint"} ->
                                  Append(for_stack, IntOf(i.arg[1]))
                             [] i.op = "load" ->
                                  Append(for_stack, for_scratch[IntOf(i.arg[1])])
                             [] i.op = "dup" -> Append(for_stack, top)
                             [] i.op = "==" ->
                                  Append(drop(2), IF under = top THEN 1 ELSE 0)
                             [] i.op = "+" -> Append(drop(2), under + top)
                             [] i.op \in {"store", "pop", "bnz"} -> drop(1)
                             [] OTHER -> for_stack
                      /\ for_scratch' =
                           IF i.op = "store"
                             THEN [for_scratch EXCEPT ![IntOf(i.arg[1])] = top]
                             ELSE for_scratch
                      /\ for_trace' =
                           CASE i.op = "==" ->
                                  Append(for_trace,
                                         [e |-> "compare", v |-> under, w |-> top])
                             [] i.op = "body" ->
                                  Append(for_trace,
                                         [e |-> "body",
                                          v |-> IF for_node.kind = "ForStatement"
                                                  THEN for_scratch[for_node.slot]
                                                  ELSE top,
                                          w |-> n])
                             [] OTHER -> for_trace
  /\ UNCHANGED <<for_node, for_teal>>
  /\ UNCHANGED notForVars

-----------------------------------------------------------------------------
(* The conditional index.  The statements of a program are built in the    *)
(* order of their opening lines, each __init__ running when its line is    *)
(* consumed and before the statements nested in it are built.  The counter *)
(* is conditional_count, the compiler's, which starts at 0.                *)

\* Bound: the number of statements of the program
MaxIndexNodes == 3

ConditionalKinds ==
  {"IfStatement", "WhileStatement", "ForStatement", "For_Statement"}
OtherCompoundKinds == {"Func", "Block", "InnerGroup"}
SimpleKinds == {"Assert", "Break"}

InitIndex ==
  /\ index_nodes = <<>>
  /\ index_open = <<>>

\* The variables of the label pass other than the counter
labelNodeVars == <<program_nodes, exit_statement, teal_labels, compiled>>

\* Node.__init__ with the parent that is open
IndexNode(kind, conditional_index) ==
  [kind |-> kind, conditional_index |-> conditional_index,
   parent |-> IF index_open = <<>> THEN 0 ELSE index_open[Len(index_open)]]

\* IfStatement.__init__, WhileStatement.__init__, ForStatement.__init__ and
\* For_Statement.__init__: the statement takes conditional_count as its
\* index and increments it
Conditional_new_NoIncrement(kind) ==
  /\ Len(index_nodes) < MaxIndexNodes
  /\ index_nodes' = Append(index_nodes, IndexNode(kind, conditional_count))
  /\ index_open' = Append(index_open, Len(index_nodes) + 1)
  /\ conditional_count' =
       IF kind = "For_Statement" THEN conditional_count ELSE conditional_count + 1
  /\ UNCHANGED <<labelNodeVars, notLabelIndexVars>>
Conditional_new(kind) ==
  /\ Len(index_nodes) < MaxIndexNodes
  /\ index_nodes' = Append(index_nodes, IndexNode(kind, conditional_count))
  /\ index_open' = Append(index_open, Len(index_nodes) + 1)
  /\ conditional_count' = conditional_count + 1
  /\ UNCHANGED <<labelNodeVars, notLabelIndexVars>>

\* The __init__ of a node of another class: the counter is not read
Node_new(kind) ==
  /\ Len(index_nodes) < MaxIndexNodes
  /\ index_nodes' = Append(index_nodes, IndexNode(kind, -1))
  /\ index_open' = IF kind \in OtherCompoundKinds
                     THEN Append(index_open, Len(index_nodes) + 1)
                     ELSE index_open
  /\ UNCHANGED notIndexVars

\* The `end` of the innermost open statement
Node_end ==
  /\ index_open # <<>>
  /\ index_open' = SubSeq(index_open, 1, Len(index_open) - 1)
  /\ UNCHANGED index_nodes
  /\ UNCHANGED notIndexVars

-----------------------------------------------------------------------------
(* One assignment of the return values of a function, `n1, ..., nk = f()`. *)
(* The function ends with `return e1, ..., ek`, one expression for each    *)
(* declared return type; the text of e_i is the instruction `expression i`,*)
(* which pushes ExpressionValue(i).  The variables in scope are those of   *)
(* AssignVars.                                                             *)

\* Bound: the number of names of the assignment and of return types of f
MaxNames == 3

AssignVars ==
  [x |-> [scratch_slot |-> 0, tealish_type |-> "int"],
   y |-> [scratch_slot |-> 1, tealish_type |-> "bytes"]]
AssignNames == {"_", "x", "y"}
AssignTypes == {"int", "bytes", "uint8"}
ExpressionValue(i) == 10 + i

InitAsg ==
  /\ asg_node = [names |-> <<>>, returns |-> <<>>, before |-> <<>>]
  /\ asg_state = "none"
  /\ asg_teal = <<>>
  /\ asg_pc = 0
  /\ asg_calls = <<>>
  /\ asg_stack = <<>>
  /\ asg_scratch = [slot \in {0, 1} |-> 0]
  /\ asg_trace = <<>>

\* Assignment.process: the expression is the call of f, whose type is the
\* list of the declared return types of f
Assignment_process(names, returns, before) ==
  /\ asg_state = "none"
  /\ names # <<>>
  /\ LET incoming_types == returns
         ok == /\ Len(incoming_types) = Len(names)
               /\ \A i \in 1..Len(names) :
                    names[i] # "_" =>
                      can_hold(AssignVars[names[i]].tealish_type,
                               incoming_types[i])
     IN asg_state' = IF ok THEN "processed" ELSE "CompileError"
  /\ asg_node' = [names |-> names, returns |-> returns, before |-> before]
  /\ UNCHANGED <<asg_teal, asg_pc, asg_calls, asg_stack, asg_scratch, asg_trace>>
  /\ UNCHANGED notAsgVars

\* Return.write_teal of `return e1, ..., ek`
Return_write_teal_SourceOrder(k) ==
  [i \in 1..k |-> I("expression", <<ToString(i)>>)] \o <<I("retsub", <<>>)>>
Return_write_teal(k) ==
  [i \in 1..k |-> I("expression", <<ToString(k + 1 - i)>>)]
    \o <<I("retsub", <<>>)>>

\* Assignment.write_teal, then `exit`, then the function with its
\* Return.write_teal
Assignment_write_teal ==
  /\ asg_state = "processed"
  /\ asg_teal' =
       <<I("callsub", <<"__func__f">>)>>
         \o [i \in 1..Len(asg_node.names) |->
               IF asg_node.names[i] = "_" THEN I("pop", <<>>)
               ELSE I("store",
                      <<ToString(AssignVars[asg_node.names[i]].scratch_slot)>>)]
         \o <<I("exit", <<>>), I("label", <<"__func__f">>)>>
         \o Return_write_teal(Len(asg_node.returns))
  /\ asg_stack' = asg_node.before
  /\ asg_pc' = 1
  /\ asg_state' = "running"
  /\ UNCHANGED <<asg_node, asg_calls, asg_scratch, asg_trace>>
  /\ UNCHANGED notAsgVars

\* One instruction of the text on the virtual machine
Assign_step ==
  /\ asg_state = "running"
  /\ LET i == asg_teal[asg_pc]
         n == Len(asg_stack)
         top == asg_stack[n]
         rest == SubSeq(asg_stack, 1, n - 1)
     IN IF i.op = "exit" \/ (i.op \in {"store", "pop"} /\ n = 0)
          THEN /\ asg_state' = IF i.op = "exit" THEN "done" ELSE "failed"
               /\ UNCHANGED <<asg_pc, asg_calls, asg_stack, asg_scratch,
                              asg_trace>>
          ELSE /\ asg_state' = "running"
               /\ asg_pc' =
                    CASE i.op = "callsub" ->
                           CHOOSE p \in 1..Len(asg_teal) :
                             asg_teal[p] = I("label", <<i.arg[1]>>)
                      [] i.op = "retsub" -> asg_calls[Len(asg_calls)]
                      [] OTHER -> asg_pc + 1
               /\ asg_calls' =
                    CASE i.op = "callsub" -> Append(asg_calls, asg_pc + 1)
                      [] i.op = "retsub" ->
                           SubSeq(asg_calls, 1, Len(asg_calls) - 1)
                      [] OTHER -> asg_calls
               /\ asg_stack' =
                    CASE i.op = "expression" ->
                           Append(asg_stack, ExpressionValue(IntOf(i.arg[1])))
                      [] i.op \in {"store", "pop"} -> rest
                      [] OTHER -> asg_stack
               /\ asg_scratch' =
                    IF i.op = "store"
                      THEN [asg_scratch EXCEPT ![IntOf(i.arg[1])] = top]
                      ELSE asg_scratch
               /\ asg_trace' =
                    CASE i.op = "store" ->
                           Append(asg_trace, [op |-> "store",
                                              slot |-> IntOf(i.arg[1]), v |-> top])
                      [] i.op = "pop" ->
                           Append(asg_trace, [op |-> "pop", slot |-> -1, v |-> top])
                      [] OTHER -> asg_trace
  /\ UNCHANGED <<asg_node, asg_teal>>
  /\ UNCHANGED notAsgVars

-----------------------------------------------------------------------------
(* One assignment to a field of a struct held in a scratch slot.  The      *)
(* struct Item has the fields a: uint8, b: bytes[2], c: int; the variable  *)
(* s: Item is in slot 0 and the variable n: int in slot 1.  A value of the *)
(* virtual machine is an unsigned integer or a byte string; the integers   *)
(* explored are below 2^31.                                                *)

Uint64(n) == [k |-> "uint64", n |-> n, b |-> <<>>]
Bytes(b) == [k |-> "bytes", n |-> 0, b |-> b]

\* The big-endian 8 bytes of n, and the integer of a byte string
itob(n) == [i \in 1..8 |-> IF i <= 4 THEN 0 ELSE (n \div 256 ^ (8 - i)) % 256]

RECURSIVE btoi(_)
btoi(b) ==
  IF b = <<>> THEN 0 ELSE 256 * btoi(SubSeq(b, 1, Len(b) - 1)) + b[Len(b)]

\* StructType Item: offsets are the prefix sums of the sizes
StructFields ==
  [a |-> [offset |-> 0, size |-> 1, tealish_type |-> "uint8"],
   b |-> [offset |-> 1, size |-> 2, tealish_type |-> "bytes[2]"],
   c |-> [offset |-> 3, size |-> 8, tealish_type |-> "int"]]

FieldVars ==
  [s |-> [scratch_slot |-> 0, tealish_type |-> "Item"],
   n |-> [scratch_slot |-> 1, tealish_type |-> "int"]]

IntTypes == {"int", "uint8"}
UIntTypes == {"uint8"}

ItemBefore == <<101, 102, 103, 104, 105, 106, 107, 108, 109, 110, 111>>

\* The expressions assigned: the type found by process and the value the
\* expression leaves on the stack
FieldExpressions ==
  {[type |-> "uint8", v |-> Uint64(5)],
   [type |-> "uint8", v |-> Uint64(255)],
   [type |-> "int", v |-> Uint64(258)],
   [type |-> "int", v |-> Uint64(70000)],
   [type |-> "bytes[1]", v |-> Bytes(<<7>>)],
   [type |-> "bytes[2]", v |-> Bytes(<<7, 8>>)],
   [type |-> "bytes[3]", v |-> Bytes(<<7, 8, 9>>)],
   [type |-> "any", v |-> Bytes(<<7, 8, 9>>)],
   [type |-> "any", v |-> Bytes(<<7, 8>>)],
   [type |-> "any", v |-> Uint64(9)],
   [type |-> "any", v |-> Uint64(300)]}

FieldNames == {"s", "n", "t"}
FieldBefore == {<<>>, <<Uint64(1)>>}

InitField ==
  /\ fw_node = [name |-> "", field_name |-> "", before |-> <<>>,
                expression |-> [type |-> "", v |-> Uint64(0)]]
  /\ fw_state = "none"
  /\ fw_teal = <<>>
  /\ fw_pc = 0
  /\ fw_stack = <<>>
  /\ fw_scratch = [slot \in {0, 1} |->
                     IF slot = 0 THEN Bytes(ItemBefore) ELSE Uint64(42)]
  /\ fw_trace = <<>>

\* StructOrBoxAssignment.process
StructOrBoxAssignment_process(name, field_name, expression, before) ==
  /\ fw_state = "none"
  /\ fw_node' = [name |-> name, field_name |-> field_name,
                 expression |-> expression, before |-> before]
  /\ fw_state' =
       IF name \notin DOMAIN FieldVars THEN "CompileError"
       ELSE IF FieldVars[name].tealish_type # "Item" THEN "CompileError"
       ELSE IF ~can_hold(StructFields[field_name].tealish_type,
                         expression.type)
         THEN "CompileError"
       ELSE "processed"
  /\ UNCHANGED <<fw_teal, fw_pc, fw_stack, fw_scratch, fw_trace>>
  /\ UNCHANGED notFieldVars

\* StructOrBoxAssignment.write_teal, the StructType branch
StructOrBoxAssignment_write_teal ==
  /\ fw_state = "processed"
  /\ LET var == FieldVars[fw_node.name]
         field == StructFields[fw_node.field_name]
         data_type == field.tealish_type
         slot == ToString(var.scratch_slot)
     IN fw_teal' =
          <<I("expression", <<>>)>>
            \o (IF data_type \in IntTypes THEN <<I("itob", <<>>)>> ELSE <<>>)
            \o (IF data_type \in IntTypes /\ data_type \in UIntTypes
                  THEN <<I("extract", <<ToString(8 - field.size),
                                        ToString(field.size)>>)>>
                  ELSE <<>>)
            \o <<I("load", <<slot>>), I("swap", <<>>),
                 I("replace", <<ToString(field.offset)>>),
                 I("store", <<slot>>)>>
  /\ fw_stack' = fw_node.before
  /\ fw_pc' = 1
  /\ fw_state' = "running"
  /\ UNCHANGED <<fw_node, fw_scratch, fw_trace>>
  /\ UNCHANGED notFieldVars

\* `replace s` of the machine: the bytes of orig from s on are those of new;
\* the length of orig is kept
Replace(orig, s, new) ==
  SubSeq(orig, 1, s) \o new \o SubSeq(orig, s + Len(new) + 1, Len(orig))

\* One instruction of the text on the virtual machine
Field_step ==
  /\ fw_state = "running"
  /\ IF fw_pc > Len(fw_teal)
       THEN /\ fw_state' = "done"
            /\ UNCHANGED <<fw_pc, fw_stack, fw_scratch, fw_trace>>
       ELSE
         LET i == fw_teal[fw_pc]
             n == Len(fw_stack)
             top == fw_stack[n]
             under == fw_stack[n - 1]
             rest == SubSeq(fw_stack, 1, n - 1)
             rest2 == SubSeq(fw_stack, 1, n - 2)
             arg(j) == IntOf(i.arg[j])
             fails ==
               CASE i.op = "itob" -> top.k # "uint64"
                 [] i.op = "extract" ->
                      top.k # "bytes" \/ arg(1) + arg(2) > Len(top.b)
                 [] i.op = "replace" ->
                      \/ top.k # "bytes" \/ under.k # "bytes"
                      \/ arg(1) + Len(top.b) > Len(under.b)
                 [] OTHER -> FALSE
         IN IF fails
              THEN /\ fw_state' = "failed"
                   /\ UNCHANGED <<fw_pc, fw_stack, fw_scratch, fw_trace>>
              ELSE /\ fw_state' = "running"
                   /\ fw_pc' = fw_pc + 1
                   /\ fw_stack' =
                        CASE i.op = "expression" ->
                               Append(fw_stack, fw_node.expression.v)
                          [] i.op = "itob" ->
                               Append(rest, Bytes(itob(top.n)))
                          [] i.op = "extract" ->
                               Append(rest, Bytes(SubSeq(top.b, arg(1) + 1,
                                                         arg(1) + arg(2))))
                          [] i.op = "load" ->
                               Append(fw_stack, fw_scratch[arg(1)])
                          [] i.op = "swap" -> rest2 \o <<top, under>>
                          [] i.op = "replace" ->
                               Append(rest2,
                                      Bytes(Replace(under.b, arg(1), top.b)))
                          [] i.op = "store" -> rest
                   /\ fw_scratch' =
                        IF i.op = "store"
                          THEN [fw_scratch EXCEPT ![arg(1)] = top]
                          ELSE fw_scratch
                   /\ fw_trace' =
                        IF i.op = "store" THEN Append(fw_trace, arg(1))
                        ELSE fw_trace
  /\ UNCHANGED <<fw_node, fw_teal>>
  /\ UNCHANGED notFieldVars

\* The read of a struct field: `load slot; extract offset size`, then `btoi`
\* for an integer field
StructField_read(slots, name, field_name) ==
  LET field == StructFields[field_name]
      bytes == SubSeq(slots[FieldVars[name].scratch_slot].b,
                      field.offset + 1, field.offset + field.size)
  IN IF field.tealish_type \in IntTypes THEN Uint64(btoi(bytes))
     ELSE Bytes(bytes)

-----------------------------------------------------------------------------
(* Specifications of the build pass                                        *)

\* The lines of the programs explored by Spec: functions without return
\* values
Lines ==
  {L(t) : t \in {"exit", "switch", "router", "assert", "comment", "return",
                 "block", "func", "deco", "if", "while", "end", "EOF"}}

\* The lines of the programs explored by SpecReturn: functions declaring
\* zero, one or two return types, and return statements whose expressions have
\* the listed types
DeclaredReturns == {<<>>, <<"int">>, <<"int", "bytes">>}

ReturnedTypes ==
  {<<>>, <<"uint8">>, <<"bytes">>, <<"uint8", "bytes">>, <<"bytes", "uint8">>}

ReturnLines ==
  {L(t) : t \in {"exit", "if", "end", "EOF"}}
    \cup {[t |-> "func", a |-> a] : a \in DeclaredReturns}
    \cup {[t |-> "return", a |-> a] : a \in ReturnedTypes}

vars ==
  <<buildVars, labelVars, registryVars, roundTripVars, innerVars, macroVars,
    routeVars, breakVars, setterVars, ifVars, forVars, indexVars, asgVars,
    fieldVars>>

Init ==
  /\ InitBuild /\ InitLabels /\ InitRegistry /\ InitRoundTrip /\ InitInner
  /\ InitMacro /\ InitRoute /\ InitBreak /\ InitIf /\ InitFor
  /\ InitIndex /\ InitAsg /\ InitField
  /\ InitSetter

Next ==
  \E l \in Lines :
    \/ Program_consume(l)
    \/ Block_consume(l)
    \/ Func_consume(l)
    \/ DecoratedFunc_consume(l)
    \/ IfThen_consume(l)
    \/ WhileStatement_consume(l)
    \/ Switch_consume(l)
    \/ Router_consume(l)

Spec == Init /\ [][Next]_vars

\* The lines of the programs explored by SpecStruct
StructLines ==
  {L(t) : t \in {"pragma", "comment", "blank", "struct", "field", "end", "exit",
                 "assert", "if", "block", "inner_group", "EOF"}}

NextStruct ==
  \E l \in StructLines :
    \/ Program_consume(l)
    \/ StructDefinition_consume(l)
    \/ IfThen_consume(l)
    \/ Block_consume(l)
    \/ InnerGroup_consume(l)

SpecStruct == Init /\ [][NextStruct]_vars

NextReturn ==
  \/ \E l \in ReturnLines :
       \/ Program_consume(l)
       \/ Func_consume(l)
       \/ IfThen_consume(l)
  \/ Return_process
  \/ Program_process

SpecReturn == Init /\ [][NextReturn]_vars

NextLabels ==
  \/ Exit_init
  \/ IfStatement_init
  \/ WhileStatement_init
  \/ \E names \in RouteLists : Router_init(names)
  \/ \E name \in Names : Block_init(name)
  \/ \E name \in Names, decorators \in DecoratorLists :
       Func_init(name, decorators)
  \/ Program_write_teal

SpecLabels == Init /\ [][NextLabels]_vars

NextRegistry ==
  \/ \E p \in RegistryPrograms : Compile_start(p)
  \/ Compile_build
  \/ Compile_process
  \/ Compile_write

SpecRegistry == Init /\ [][NextRegistry]_vars

NextRoundTrip ==
  \/ \E line \in RoundTripLines : RoundTrip_consume(line)
  \/ Program_tealish
  \/ RoundTrip_parse

SpecRoundTrip == Init /\ [][NextRoundTrip]_vars

NextInner ==
  \/ \E option \in {"None", "True", "False"}, slot \in 0..MaxSlot :
       Compiler_init(option, slot)
  \/ \E n \in 0..MaxInners :
       Inner_consume([kind |-> "InnerGroup", inners |-> n, setters |-> 0])
  \/ \E n \in SetterCounts :
       Inner_consume([kind |-> "InnerTxn", inners |-> 0, setters |-> n])
  \/ Inner_consume([kind |-> "Assert", inners |-> 0, setters |-> 0])
  \/ Program_process_macro
  \/ InnerGroup_write_teal
  \/ InnerTxn_write_teal
  \/ Assert_write_teal
  \/ Program_write_macro

SpecInner == Init /\ [][NextInner]_vars

NextMacro ==
  \/ \E sub \in MacroSubs : VM_callsub(sub)
  \/ VM_stack_op
  \/ VM_branch
  \/ VM_assert
  \/ VM_itxn
  \/ VM_retsub

SpecMacro == Init /\ [][NextMacro]_vars

NextRoute ==
  \/ \E decorators \in RouteDecoratorLists, args \in SeqsUpTo(ArgTypeNames, MaxArgs),
        returns \in SeqsUpTo(ReturnTypeNames, MaxReturns) :
       Route_build(decorators, args, returns)
  \/ Route_process_args
  \/ Router_write_teal
  \/ Route_call
  \/ Route_step

SpecRoute == Init /\ [][NextRoute]_vars

NextBreak ==
  \/ \E kind \in {"IfStatement", "WhileStatement", "ForStatement"} :
       Conditional_init(kind)
  \/ Nested_func_init
  \/ Compound_end
  \/ Break_init
  \/ Break_write_teal

SpecBreak == Init /\ [][NextBreak]_vars

NextSetters ==
  \/ \E name \in SetterNames, index \in SetterIndices :
       InnerTxn_add_child(name, index)
  \/ InnerTxn_process

SpecSetters == Init /\ [][NextSetters]_vars

NextIf ==
  \/ \E modifier \in Modifiers, count \in 0..MaxConditionalCount :
       IfStatement_consume_if(modifier, count)
  \/ \E modifier \in Modifiers : IfStatement_add_elif(modifier)
  \/ IfStatement_add_else
  \/ IfStatement_end
  \/ IfStatement_process
  \/ IfStatement_write_teal
  \/ \E values \in SeqsUpTo(ConditionValues, MaxElifs + 1) : If_run(values)
  \/ If_step

SpecIf == Init /\ [][NextIf]_vars

NextFor ==
  \/ \E kind \in {"ForStatement", "For_Statement"}, start \in 0..MaxEnd,
        end \in 0..MaxEnd, slot \in ForSlots, before \in {<<>>, <<7>>} :
       For_run(kind, start, end, slot, before)
  \/ For_step

SpecFor == Init /\ [][NextFor]_vars

NextIndex ==
  \/ \E kind \in ConditionalKinds : Conditional_new(kind)
  \/ \E kind \in OtherCompoundKinds \cup SimpleKinds : Node_new(kind)
  \/ Node_end

SpecIndex == Init /\ [][NextIndex]_vars

\* The lines of the programs explored by SpecTerminate
TerminateLines ==
  {L(t) : t \in {"if", "elif", "else", "assign_end", "deco", "func", "assert",
                 "return", "exit", "end", "EOF"}}

NextTerminate ==
  \E l \in TerminateLines :
    \/ Program_consume(l)
    \/ IfThen_consume(l)
    \/ Elif_consume(l)
    \/ Else_consume(l)
    \/ DecoratedFunc_consume(l)
    \/ Func_consume(l)

SpecTerminate == Init /\ [][NextTerminate]_vars

NextAssign ==
  \/ \E names \in SeqsUpTo(AssignNames, MaxNames),
        returns \in SeqsUpTo(AssignTypes, MaxNames),
        before \in {<<>>, <<7>>} :
       Assignment_process(names, returns, before)
  \/ Assignment_write_teal
  \/ Assign_step

SpecAssign == Init /\ [][NextAssign]_vars

NextField ==
  \/ \E name \in FieldNames, field_name \in DOMAIN StructFields,
        expression \in FieldExpressions, before \in FieldBefore :
       StructOrBoxAssignment_process(name, field_name, expression, before)
  \/ StructOrBoxAssignment_write_teal
  \/ Field_step

SpecField == Init /\ [][NextField]_vars

-----------------------------------------------------------------------------
(* Properties of the build pass                                            *)

\* The last element of a list of nodes that is not of an ignored class
LastIgnoring(nodes, ignored) ==
  LET keep == SelectSeq(nodes, LAMBDA n : n \notin ignored)
  IN IF keep = <<>> THEN "None" ELSE keep[Len(keep)]

\* C1: after an exit statement at top level or directly in a block, a
\* statement at that level is accepted if and only if it is a func, a
\* decorated func, a block, a comment or a blank line, in Program.consume and
\* in Block.consume alike.
C1_AfterExitRule ==
  lastStmt.afterExit =>
    (lastStmt.rejected <=>
       lastStmt.kind \notin {"Func", "DecoratedFunc", "Block", "Comment", "Blank"})

\* C2: no program is built in which a func, a decorated func or a block was
\* opened before the first exit statement of its enclosing top level or block.
C2_DefBeforeExitRejected == outcome = "built" => ~defBeforeExit

\* C3: Block.consume accepts a block at its `end` exactly when the last body
\* statement, other than trailing func/block definitions, comments and
\* blanks, is an exit statement of the block's own level.
C3_BlockEndsInExit ==
  lastBlock.closed =>
    (lastBlock.accepted <=>
       LastIgnoring(lastBlock.nodes, {"Func", "Block", "Comment", "Blank"})
         \in {"Exit", "Switch", "Jump", "Router"})

C3_Witness ==
  /\ lastBlock.closed
  /\ lastBlock.accepted
  /\ lastBlock.nodes = <<"Exit", "Func", "Comment">>

\* C4 as claimed: a function that Func.consume accepts (and whose program is
\* parsed on) has a Return as the last statement of its body, ignoring
\* comments and blank lines; a function it rejects has not.
C4_FuncEndsInReturn ==
  lastFunc.closed =>
    /\ (lastFunc.accepted /\ outcome = "running") =>
         LastIgnoring(lastFunc.nodes, {"Comment", "Blank"}) = "Return"
    /\ ~lastFunc.accepted =>
         LastIgnoring(lastFunc.nodes, {"Comment", "Blank"}) # "Return"

\* C4 as amended: Func.consume accepts a function exactly when the last
\* statement of its body, ignoring comments, blank lines and nested func
\* definitions, is a Return.
C4_FuncEndsInReturnOrNestedFunc ==
  lastFunc.closed =>
    (lastFunc.accepted <=>
       LastIgnoring(lastFunc.nodes, {"Comment", "Blank", "Func"}) = "Return")

C4_Witness ==
  /\ lastFunc.closed
  /\ lastFunc.accepted
  /\ lastFunc.nodes = <<"Return", "Func">>
  /\ outcome = "running"

\* C5: `return e1,...,ek` is accepted if and only if it is inside a func, the
\* func declares exactly k return types, and the i-th declared type can hold
\* the type of e_i.  Return.__init__ decides the first two (ParseError),
\* Return.process the third (CompileError).
C5_ReturnArityAndTypes ==
  /\ lastRet.phase = "build" =>
       (lastRet.accepted <=>
          lastRet.inFunc /\ Len(lastRet.exprs) = Len(lastRet.declared))
  /\ lastRet.phase = "process" =>
       (lastRet.accepted <=>
          \A i \in 1..Len(lastRet.declared) :
            \/ lastRet.declared[i] = lastRet.exprs[i]
            \/ lastRet.declared[i] = "int" /\ lastRet.exprs[i] = "uint8")

C5_Witness ==
  /\ lastRet.phase = "process"
  /\ lastRet.accepted
  /\ lastRet.declared = <<"int", "bytes">>
  /\ lastRet.exprs = <<"uint8", "bytes">>

\* C6: the label lines of the assembly written for an accepted program are
\* pairwise distinct.
C6_LabelsDistinct ==
  compiled = "ok" =>
    \A i, j \in 1..Len(teal_labels) :
      i # j => teal_labels[i] # teal_labels[j]

\* C7: every compilation of a program ends with the outcome of the first
\* compilation of that program in the process, whatever was compiled in
\* between.
C7_SameOutcome ==
  last_outcome.outcome # NoOutcome =>
    first_outcome[last_outcome.program] = last_outcome.outcome

\* C8: the text printed for the tree of an accepted program parses, and the
\* tree parsed from it equals the tree printed.
C8_RoundTrip ==
  round_trip \notin {"reading", "printed"} =>
    round_trip = "parsed" /\ reparsed = child_nodes

\* The number of elements of the sequence q that equal x
Count(q, x) == Cardinality({i \in 1..Len(q) : q[i] = x})

\* C9: for a program that is one inner_group of two inner_txn blocks, the
\* macro not disabled, the output has one `callsub _itxn_group_begin`, two
\* `callsub _itxn_begin` and two `callsub _itxn_submit`, one
\* `callsub _itxn_group_submit`, and the four macro subroutines, which use the
\* scratch slot one above the highest slot of the program.
C9_GroupOfTwo ==
  ( /\ pass = "done"
    /\ inner_nodes = <<[kind |-> "InnerGroup", inners |-> 2, setters |-> 0]>>
    /\ macro_option # "False" ) =>
      /\ Count(output, I("callsub", <<"_itxn_group_begin">>)) = 1
      /\ Count(output, I("callsub", <<"_itxn_begin">>)) = 2
      /\ Count(output, I("callsub", <<"_itxn_submit">>)) = 2
      /\ Count(output, I("callsub", <<"_itxn_group_submit">>)) = 1
      /\ \A sub \in {"_itxn_group_begin", "_itxn_begin", "_itxn_submit",
                      "_itxn_group_submit"} :
           Count(output, I("label", <<sub>>)) = 1
      /\ flag_slot = max_slot
      /\ Count(output, I("load", <<ToString(flag_slot)>>)) = 3

\* The table of the flag state machine: what a call of `sub` with the flag at
\* f does
FlagTable(sub, f) ==
  CASE sub = "_itxn_group_begin" ->
         [fails |-> f # 0, flag |-> IF f = 0 THEN 1 ELSE f, ops |-> <<>>]
    [] sub = "_itxn_begin" ->
         [fails |-> FALSE, flag |-> IF f = 0 THEN 0 ELSE 2,
          ops |-> IF f = 2 THEN <<"itxn_next">> ELSE <<"itxn_begin">>]
    [] sub = "_itxn_submit" ->
         [fails |-> FALSE, flag |-> f,
          ops |-> IF f = 0 THEN <<"itxn_submit">> ELSE <<>>]
    [] sub = "_itxn_group_submit" ->
         [fails |-> FALSE, flag |-> 0, ops |-> <<"itxn_submit">>]

\* C10: starting from flag 0 the flag stays in {0, 1, 2}, and every call of a
\* macro subroutine fails or returns as the table says, with the flag and
\* the inner transaction opcodes executed that the table gives.
C10_FlagStateMachine ==
  /\ scratch[MacroSlot] \in {0, 1, 2}
  /\ vm_state \in {"returned", "failed"} =>
       /\ (vm_state = "failed") = FlagTable(entry.sub, entry.flag).fails
       /\ scratch[MacroSlot] = FlagTable(entry.sub, entry.flag).flag
       /\ vm_state = "returned" => call_ops = FlagTable(entry.sub, entry.flag).ops

C10_Witness ==
  /\ vm_state = "returned"
  /\ entry = [sub |-> "_itxn_begin", flag |-> 1]
  /\ scratch[MacroSlot] = 2
  /\ call_ops = <<"itxn_begin">>

\* C11: a bare inner_txn outside any inner_group is written as `itxn_begin`,
\* its field setters, `itxn_submit` when use_inner_txns_macro is disabled,
\* and as `callsub _itxn_begin`, its field setters, `callsub _itxn_submit`
\* when the flag is enabled at the time the program is written.  Stated for
\* the programs without inner_group, whose flag after Program.process is the
\* option the compiler was created with.
RECURSIVE C11_Lowering(_, _)
C11_Lowering(nodes, flag) ==
  IF nodes = <<>> THEN <<>>
  ELSE LET n == Head(nodes)
           teal == IF n.kind = "Assert" THEN <<I("assert", <<>>)>>
                   ELSE IF flag = "True"
                     THEN <<I("callsub", <<"_itxn_begin">>)>>
                            \o Setters_teal(n.setters)
                            \o <<I("callsub", <<"_itxn_submit">>)>>
                     ELSE <<I("itxn_begin", <<>>)>> \o Setters_teal(n.setters)
                            \o <<I("itxn_submit", <<>>)>>
       IN teal \o C11_Lowering(Tail(nodes), flag)

C11_BareInnerTxn ==
  ( /\ pass = "done"
    /\ \A i \in 1..Len(inner_nodes) : inner_nodes[i].kind # "InnerGroup"
    /\ \E i \in 1..Len(inner_nodes) : inner_nodes[i].kind = "InnerTxn" ) =>
      LET teal == C11_Lowering(inner_nodes, macro_option)
      IN /\ Len(output) >= Len(teal)
         /\ SubSeq(output, 1, Len(teal)) = teal

\* C12: Route.process accepts a route if and only if the function it names
\* has a `public` decorator line; a route to a function without it makes the
\* compilation fail with CompileError, and a function without `public` is
\* still written with its label, so that it can be called by name.  Stated
\* for the programs whose routes all name a function of the program.
C12_Functions == {i \in 1..Len(program_nodes) :
                    program_nodes[i].kind \in {"Func", "DecoratedFunc"}}

C12_Routes ==
  UNION {{program_nodes[i].routes[k] : k \in 1..Len(program_nodes[i].routes)} :
           i \in 1..Len(program_nodes)}

RECURSIVE C13_Encoding(_, _)
C13_Encoding(returns, i) ==
  IF i >= Len(returns) THEN <<>>
  ELSE <<(IF returns[i + 1] = "int" THEN "itob " ELSE "") \o "r" \o ToString(i)>>
         \o C13_Encoding(returns, i + 1)

C13_ReturnLog ==
  LET returns == route_func.returns
  IN /\ route_state # "failed"
     /\ route_state \in {"written", "running", "returned"} =>
          Count(route_teal, I("concat", <<>>)) =
            IF returns = <<>> THEN 0 ELSE (Len(returns) - 1) + 1
     /\ route_state = "returned" =>
          /\ route_stack = <<>>
          /\ logged = IF returns = <<>> THEN <<>>
                      ELSE << <<"0x151f7c75">> \o C13_Encoding(returns, 0) >>

C13_Witness ==
  /\ route_state = "returned"
  /\ route_func.returns = <<"bytes", "int", "bytes">>
  /\ logged = << <<"0x151f7c75", "r0", "itob r1", "r2">> >>

\* C14: for a routed (public) function, Route.process builds exactly one
\* expression for each parameter; the expression of the parameter at
\* position i (from 0) reads application argument i + 1 and converts it by
\* the declared type (bytes: as it is; int: FromBytes; an unsigned int of
\* less than 8 bytes: btoi then Cast; other bytes types: Cast), for every
\* parameter type; process raises nothing but CompileError.
C14_Forms(i, type_name) ==
  LET a == "Txn.ApplicationArgs[" \o ToString(i + 1) \o "]"
      bytes == a
      int == "FromBytes(" \o a \o ", " \o type_name \o ")"
      narrow == "Cast(btoi(" \o a \o "), " \o type_name \o ")"
      cast == "Cast(" \o a \o ", " \o type_name \o ")"
  IN CASE type_name = "bytes" -> {bytes}
       [] type_name = "int" -> {int}
       [] type_name = "uint8" -> {narrow}
       [] type_name = "addr" -> {cast}
       [] OTHER -> {bytes, int, narrow, cast}

C14_Demarshalling ==
  /\ route_state # "UnboundLocalError"
  /\ route_state \in {"processed", "written", "running", "returned"} =>
       /\ Len(arg_expressions) = Len(route_func.args)
       /\ \A k \in 1..Len(arg_expressions) :
            arg_expressions[k] \in C14_Forms(k - 1, route_func.args[k])

\* C15: a `break` is accepted only if a while statement is among the
\* statements that enclose it, and is rejected with ParseError otherwise; the
\* branch it writes goes to the end label of the innermost enclosing while,
\* also when an if or a for lies between the break and that while.
C15_BreakTarget ==
  /\ \A k \in 1..Len(break_nodes) :
       LET a == break_nodes[k].ancestors
           whiles == {i \in 1..Len(a) : a[i].kind = "WhileStatement"}
       IN IF whiles = {}
            THEN break_outcome = "ParseError" /\ k = Len(break_nodes)
            ELSE LET innermost == CHOOSE i \in whiles : \A j \in whiles : j <= i
                 IN /\ break_nodes[k].parent_loop = a[innermost].end_label
                    /\ break_outcome = "written" =>
                         break_teal[k] = a[innermost].end_label
  /\ break_outcome = "ParseError" =>
       \A i \in 1..Len(break_nodes[Len(break_nodes)].ancestors) :
         break_nodes[Len(break_nodes)].ancestors[i].kind # "WhileStatement"

C15_Witness ==
  /\ break_outcome = "written"
  /\ \E k \in 1..Len(break_nodes) :
       /\ break_teal[k] = "l1_end"
       /\ Len(break_nodes[k].ancestors) = 3
       /\ break_nodes[k].ancestors[1].kind = "WhileStatement"
       /\ break_nodes[k].ancestors[2].kind = "WhileStatement"
       /\ break_nodes[k].ancestors[3].kind \in {"IfStatement", "ForStatement"}

\* C16: a struct definition is accepted only directly in the program, and
\* only while every statement handed to Program.consume before it is a pragma,
\* a comment, a blank line or a struct definition; after any other top-level
\* statement, or inside another statement, it is rejected with ParseError
\* (inside another statement at its first line, after another top-level
\* statement when its `end` has been consumed).
C16_StructAtTop ==
  /\ \A i \in 1..Len(stack) :
       stack[i].kind = "StructDefinition" =>
         i = 2 /\ stack[1].kind = "Program"
  /\ lastStmt.kind = "StructDefinition" =>
       /\ lastStmt.rejected <=> (lastStmt.level # "Program" \/ otherBeforeStruct)
       /\ lastStmt.rejected => outcome = "ParseError"
       /\ ~lastStmt.rejected => outcome = "running"

C16_Witness ==
  /\ outcome = "ParseError"
  /\ lastStmt.kind = "StructDefinition"
  /\ lastStmt.level = "Program"
  /\ line_no = 5

\* C17: within one inner_txn, for every field name, the setters written
\* with an index carry, in source order, the indices 0, 1, 2, ...; process
\* fails at the first setter whose index is not the number of indexed
\* setters of its field before it, and accepts the inner_txn otherwise.
\* Field names are counted independently.
C17_Seen(k) ==
  Cardinality({j \in 1..(k - 1) :
                 /\ setter_lines[j].name = setter_lines[k].name
                 /\ setter_lines[j].index # ""})

C17_IndicesInOrder ==
  setter_outcome # "build" =>
    ( setter_outcome = "ok" <=>
        \A k \in 1..Len(setter_lines) :
          setter_lines[k].index # "" =>
            IntOf(setter_lines[k].index) = C17_Seen(k) )

\* C18: an input that is not compiled is rejected with ParseError or
\* CompileError; no other kind of exception leaves the compiler, also when
\* the input ends while a compound statement is open.
C18_TwoErrorKinds == outcome # "OtherError"

\* The calls of one inner group of k inner transactions
GroupCalls(k) ==
  <<"_itxn_group_begin">>
    \o [i \in 1..(2 * k) |-> IF i % 2 = 1 THEN "_itxn_begin" ELSE "_itxn_submit"]
    \o <<"_itxn_group_submit">>

\* The inner transaction opcodes the calls from..to of the history executed
RECURSIVE IssuedOps(_, _)
IssuedOps(from, to) ==
  IF from > to THEN <<>> ELSE history[from].ops \o IssuedOps(from + 1, to)

\* The calls from..from+2k+1 of the history are one group of k inner
\* transactions that started with the flag at 0
GroupAt(from, k) ==
  /\ from + 2 * k + 1 <= Len(history)
  /\ history[from].flag = 0
  /\ \A i \in 1..(2 * k + 2) : history[from + i - 1].sub = GroupCalls(k)[i]

\* The flag when call `to` of the history had returned
FlagAfter(to) ==
  IF to < Len(history) THEN history[to + 1].flag
  ELSE IF vm_state = "returned" THEN scratch[MacroSlot] ELSE entry.flag

C19_WitnessFollowing ==
  /\ GroupAt(1, 1)
  /\ Len(history) = 6
  /\ history[5].sub = "_itxn_begin"
  /\ history[6].sub = "_itxn_submit"
  /\ IssuedOps(5, 6) = <<"itxn_begin", "itxn_submit">>

\* The modifier of branch i: the statement's for the first, the elif's after
ModifierOf(i) == IF i = 1 THEN if_statement.modifier ELSE if_children[i].modifier

\* The condition of branch i held: non-zero, or zero with the modifier `not`
Held(i) ==
  IF ModifierOf(i) = "not" THEN condition_values[i] = 0
  ELSE condition_values[i] # 0

\* What the chain does from branch i on, from the source alone: the label
\* of the branch is passed, its condition is evaluated, its body runs when
\* the condition held (always for the else) and the end label is reached
RECURSIVE ChainFrom(_)
ChainFrom(i) ==
  LET end == <<[e |-> "label", n |-> if_statement.end_label]>>
  IN IF i > Len(if_children) THEN end
     ELSE LET at == IF i = 1 THEN <<>>
                    ELSE <<[e |-> "label", n |-> if_children[i].label]>>
              body == <<[e |-> "body", n |-> ToString(i)]>>
          IN IF if_children[i].kind = "Else" THEN at \o body \o end
             ELSE at \o <<[e |-> "condition", n |-> ToString(i)]>>
                    \o (IF Held(i) THEN body \o end ELSE ChainFrom(i + 1))

\* The label the failing jump of branch i must take: the label of the
\* branch after it, the end label for the last
FollowingLabel(i) ==
  IF i < Len(if_children) THEN if_children[i + 1].label
  ELSE if_statement.end_label

\* In the text, the label is the line before the code of branch i (before
\* its condition, before the body of the else), the last line for i past the
\* last branch
LabelOpens(label, i) ==
  \E p \in 1..Len(if_teal) :
    /\ if_teal[p] = I("label", <<label>>)
    /\ IF i > Len(if_children) THEN p = Len(if_teal)
       ELSE /\ p < Len(if_teal)
            /\ if_teal[p + 1] =
                 I(IF if_children[i].kind = "Else" THEN "body" ELSE "expression",
                   <<ToString(i)>>)

\* C20: the text written for an if / elif* / else? chain evaluates the
\* conditions in source order, runs the body of the first branch whose
\* condition is non-zero (zero with `not`), or the else body when there is
\* one and no condition held, and continues at the shared end label; the
\* jump after each condition names the label that opens the following
\* branch, or the end label for the last branch.  The bodies are taken to
\* fall through.
C20_IfChain ==
  /\ if_state # "failed"
  /\ if_state = "done" => if_trace = ChainFrom(1)
  /\ if_state \in {"written", "running", "done"} =>
       \A i \in Conditionals :
         \E p \in 1..(Len(if_teal) - 1) :
           /\ if_teal[p] = I("expression", <<ToString(i)>>)
           /\ if_teal[p + 1] =
                I(IF ModifierOf(i) = "not" THEN "bnz" ELSE "bz",
                  <<FollowingLabel(i)>>)
           /\ LabelOpens(FollowingLabel(i), i + 1)
           /\ Cardinality(LabelAt(FollowingLabel(i))) = 1

C20_Witness ==
  /\ if_state = "done"
  /\ Len(if_children) = 4
  /\ if_children[4].kind = "Else"
  /\ if_statement.modifier = "not"
  /\ if_children[3].modifier = "not"
  /\ condition_values = <<2, 0, 0>>
  /\ if_trace = << [e |-> "condition", n |-> "1"],
                   [e |-> "label", n |-> "l1_elif_0"],
                   [e |-> "condition", n |-> "2"],
                   [e |-> "label", n |-> "l1_elif_1"],
                   [e |-> "condition", n |-> "3"],
                   [e |-> "body", n |-> "3"],
                   [e |-> "label", n |-> "l1_end"] >>

C20_WitnessElse ==
  /\ if_state = "done"
  /\ Len(if_children) = 2
  /\ if_children[2].kind = "Else"
  /\ if_trace = << [e |-> "condition", n |-> "1"],
                   [e |-> "label", n |-> "l0_else"],
                   [e |-> "body", n |-> "2"],
                   [e |-> "label", n |-> "l0_end"] >>

\* What a loop from a to the end of for_node does: the counter is compared
\* with the end, the body runs with the counter at a, and so on up to the
\* comparison that finds the counter at the end.  `depth` is the stack depth
\* the body finds.
RECURSIVE Iterations(_, _)
Iterations(a, depth) ==
  <<[e |-> "compare", v |-> a, w |-> for_node.end]>>
    \o (IF a = for_node.end THEN <<>>
        ELSE <<[e |-> "body", v |-> a, w |-> depth]>>
               \o Iterations(a + 1, depth))

\* C21: the text written for `for name in A:B:` with A <= B runs the body
\* B - A times with the loop slot at A, A+1, ..., B-1, compares the slot
\* with B before every iteration, and leaves the loop with the slot at B;
\* for A = B the body does not run.
C21_NamedLoop ==
  (for_node.kind = "ForStatement" /\ for_state = "done") =>
    /\ for_trace = Iterations(for_node.start, Len(for_node.before))
    /\ for_scratch[for_node.slot] = for_node.end
    /\ for_stack = for_node.before

C21_Witness ==
  /\ for_node.kind = "ForStatement"
  /\ for_state = "done"
  /\ for_node.start = 1
  /\ for_node.end = 3
  /\ Len(for_trace) = 5
  /\ for_trace[4] = [e |-> "body", v |-> 2, w |-> 0]
  /\ for_scratch[for_node.slot] = 3

C21_WitnessEmpty ==
  /\ for_node.kind = "ForStatement"
  /\ for_state = "done"
  /\ for_node.start = 2
  /\ for_node.end = 2
  /\ for_trace = <<[e |-> "compare", v |-> 2, w |-> 2]>>

\* C22: the text written for `for _ in A:B:` keeps the loop counter on the
\* stack only while the loop runs: when the end label has been reached the
\* stack is the stack before the loop, for every A <= B.
C22_CounterPopped ==
  (for_node.kind = "For_Statement" /\ for_state = "done") =>
    for_stack = for_node.before

\* The program has an inner_group
HasInnerGroup ==
  \E i \in 1..Len(inner_nodes) : inner_nodes[i].kind = "InnerGroup"

\* C23: Program.process leaves use_inner_txns_macro true exactly when it was
\* explicitly true, or unset with an inner_group in the program, and an
\* explicit false stays false.  Exactly when it is true, inner_group_flag is
\* declared at the previous max_slot + 1, above the slots of the program
\* variables, and max_slot is raised to it; otherwise no slot is declared
\* and max_slot is unchanged.
C23_ProcessMacro ==
  [][(pass = "build" /\ pass' = "write") =>
       /\ (use_inner_txns_macro' = "True") <=>
            (\/ use_inner_txns_macro = "True"
             \/ use_inner_txns_macro = "None" /\ HasInnerGroup)
       /\ use_inner_txns_macro = "False" => use_inner_txns_macro' = "False"
       /\ use_inner_txns_macro = macro_option
       /\ IF use_inner_txns_macro' = "True"
            THEN /\ flag_slot' = max_slot + 1
                 /\ max_slot' = flag_slot'
                 /\ \A slot \in 0..max_slot : slot < flag_slot'
            ELSE /\ flag_slot' = -1
                 /\ max_slot' = max_slot]_vars

C23_Witness ==
  /\ pass = "write"
  /\ written = 0
  /\ macro_option = "None"
  /\ HasInnerGroup
  /\ use_inner_txns_macro = "True"
  /\ max_slot = MaxSlot + 1
  /\ flag_slot = MaxSlot + 1

C23_WitnessFalse ==
  /\ pass = "write"
  /\ written = 0
  /\ macro_option = "False"
  /\ HasInnerGroup
  /\ use_inner_txns_macro = "False"
  /\ flag_slot = -1

\* The places of the statements with a conditional index among the first n
ConditionalsUpTo(n) ==
  {i \in 1..n : index_nodes[i].kind \in ConditionalKinds}

\* C24: within one compilation every if, while, for and unnamed-for
\* statement has its own conditional index; the indices follow the order of
\* the opening lines, so an enclosing statement has a smaller index than the
\* statements nested in it; conditional_count grows by exactly one with each
\* such statement, never decreases, and no other node takes an index.
C24_ConditionalIndex ==
  /\ [](/\ conditional_count = Cardinality(ConditionalsUpTo(Len(index_nodes)))
        /\ \A i \in 1..Len(index_nodes) :
             LET n == index_nodes[i]
             IN /\ n.conditional_index =
                     IF n.kind \in ConditionalKinds
                       THEN Cardinality(ConditionalsUpTo(i - 1)) ELSE -1
                /\ (n.kind \in ConditionalKinds /\ n.parent > 0
                      /\ index_nodes[n.parent].kind \in ConditionalKinds)
                     => index_nodes[n.parent].conditional_index
                          < n.conditional_index
        /\ \A i, j \in ConditionalsUpTo(Len(index_nodes)) :
             i # j => index_nodes[i].conditional_index
                        # index_nodes[j].conditional_index)
  /\ [][/\ conditional_count' \in {conditional_count, conditional_count + 1}
        /\ (conditional_count' = conditional_count + 1) <=>
             (/\ Len(index_nodes') = Len(index_nodes) + 1
              /\ index_nodes'[Len(index_nodes')].kind \in ConditionalKinds)]_vars

C24_Witness ==
  /\ Len(index_nodes) = 3
  /\ index_nodes[1] = [kind |-> "WhileStatement", conditional_index |-> 0,
                       parent |-> 0]
  /\ index_nodes[2] = [kind |-> "Assert", conditional_index |-> -1, parent |-> 1]
  /\ index_nodes[3] = [kind |-> "For_Statement", conditional_index |-> 1,
                       parent |-> 1]
  /\ conditional_count = 2

\* C25: write_teal changes no per-compilation state of the compiler: while
\* and after the program is written, use_inner_txns_macro and max_slot have
\* the values Program.process left (the flag is true when the option was
\* true, or unset with an inner_group in the program, and is the option
\* otherwise; max_slot is the slot of the flag when it was declared).
C25_WriteKeepsState ==
  pass \in {"write", "done"} =>
    /\ use_inner_txns_macro =
         IF macro_option = "None" /\ HasInnerGroup THEN "True" ELSE macro_option
    /\ flag_slot # -1 => max_slot = flag_slot

\* C26: the build pass terminates: no consume loop reaches an iteration that
\* neither consumes a line nor leaves the loop ("Hang": the iteration leaves
\* the compiler as it found it, so the loop repeats it for ever).
C26_EveryIterationProgresses == outcome # "Hang"

\* C27: in the text written for an accepted program every label that is the
\* target of a jump or call is defined exactly once in the same text; here
\* for the targets of callsub: every `callsub _itxn_...` comes with its
\* macro subroutine in the epilogue.
C27_TargetsDefined ==
  pass = "done" =>
    \A i \in 1..Len(output) :
      output[i].op = "callsub" =>
        Count(output, I("label", <<output[i].arg[1]>>)) = 1

\* The calls from place i of the history on are calls an accepted program
\* makes: groups (_itxn_group_begin, pairs of _itxn_begin and _itxn_submit,
\* _itxn_group_submit; no pair for a group without inner_txn or with every
\* inner_txn skipped) and pairs outside a group
RECURSIVE ProgramCalls(_, _)
ProgramCalls(i, in_group) ==
  IF i > Len(history) THEN TRUE
  ELSE LET sub == history[i].sub
       IN CASE sub = "_itxn_group_begin" -> ~in_group /\ ProgramCalls(i + 1, TRUE)
            [] sub = "_itxn_group_submit" -> in_group /\ ProgramCalls(i + 1, FALSE)
            [] sub = "_itxn_begin" ->
                 \/ i = Len(history)
                 \/ /\ history[i + 1].sub = "_itxn_submit"
                    /\ ProgramCalls(i + 2, in_group)
            [] OTHER -> FALSE

\* The inner transaction after the first n calls of the history: "open"
\* after an itxn_begin that has not been submitted, "closed" otherwise, and
\* "bad" once itxn_submit or itxn_next was executed with none open
RECURSIVE OpenAfter(_)
OpenAfter(n) ==
  IF n = 0 THEN "closed"
  ELSE LET before == OpenAfter(n - 1)
           ops == history[n].ops
       IN IF before = "bad" \/ ops = <<>> THEN before
          ELSE CASE ops[1] = "itxn_begin" -> "open"
                 [] ops[1] = "itxn_next" ->
                      IF before = "open" THEN "open" ELSE "bad"
                 [] ops[1] = "itxn_submit" ->
                      IF before = "open" THEN "closed" ELSE "bad"

\* C28: when the macro subroutines are called as an accepted program calls
\* them, itxn_submit is executed only while an inner transaction is open,
\* also for a group in which no inner_txn runs.
C28_SubmitWhileOpen ==
  ProgramCalls(1, FALSE) => OpenAfter(Len(history)) # "bad"

\* C29: return values keep their positions: for `return e1, ..., ek` and
\* `n1, ..., nk = f()` the text stores the value of e_i in the slot of n_i,
\* pops it when n_i is `_`, in the order of the names, and leaves the stack
\* as it was before the statement; the assignment is accepted exactly when
\* the variable of each n_i other than `_` can hold the i-th return type.
C29_PositionsKept ==
  LET names == asg_node.names
      returns == asg_node.returns
  IN /\ asg_state = "done" =>
          /\ asg_trace =
               [i \in 1..Len(names) |->
                  IF names[i] = "_"
                    THEN [op |-> "pop", slot |-> -1, v |-> ExpressionValue(i)]
                    ELSE [op |-> "store",
                          slot |-> AssignVars[names[i]].scratch_slot,
                          v |-> ExpressionValue(i)]]
          /\ asg_stack = asg_node.before
          /\ asg_calls = <<>>
     /\ asg_state # "failed"
     /\ (asg_state \notin {"none", "CompileError"}) =>
          /\ Len(names) = Len(returns)
          /\ \A i \in 1..Len(names) :
               names[i] # "_" =>
                 can_hold(AssignVars[names[i]].tealish_type, returns[i])
     /\ asg_state = "CompileError" =>
          \/ Len(names) # Len(returns)
          \/ \E i \in 1..Len(names) :
               /\ names[i] # "_"
               /\ ~can_hold(AssignVars[names[i]].tealish_type, returns[i])

C29_Witness ==
  /\ asg_state = "done"
  /\ asg_node.names = <<"y", "_", "x">>
  /\ asg_node.returns = <<"bytes", "bytes", "uint8">>
  /\ asg_scratch[1] = ExpressionValue(1)
  /\ asg_scratch[0] = ExpressionValue(3)
  /\ Len(asg_trace) = 3

-----------------------------------------------------------------------------
(* Struct field writes                                                     *)

\* C30: when the text written for an accepted assignment `s.f = v` to a
\* field of a struct in a scratch slot has run, the byte string in the slot
\* of s has its length of before, every byte of it outside
\* [offset(f), offset(f) + size(f)) is the byte of before, no other slot was
\* stored to, reading s.f gives v, and for an unsigned integer field of
\* n bytes the bytes of the field are the n low-order bytes of itob(v).
C30_FieldWriteFrame ==
  fw_state = "done" =>
    LET field == StructFields[fw_node.field_name]
        slot == FieldVars[fw_node.name].scratch_slot
        new == fw_scratch[slot]
        v == fw_node.expression.v
    IN /\ new.k = "bytes"
       /\ Len(new.b) = Len(ItemBefore)
       /\ \A i \in 1..Len(ItemBefore) :
            (i <= field.offset \/ i > field.offset + field.size)
              => new.b[i] = ItemBefore[i]
       /\ \A j \in 1..Len(fw_trace) : fw_trace[j] = slot
       /\ fw_scratch[1] = Uint64(42)
       /\ fw_stack = fw_node.before
       /\ StructField_read(fw_scratch, fw_node.name, fw_node.field_name) = v
       /\ field.tealish_type \in UIntTypes =>
            SubSeq(new.b, field.offset + 1, field.offset + field.size)
              = SubSeq(itob(v.n), 8 - field.size + 1, 8)

====
